---- MODULE Spec2Model ----
(***************************************************************************)
(* Model of the resume store and the search operations of the ATS backend  *)
(* (src/app/services/search_engine.py, src/app/services/database.py,       *)
(* src/app/routes/search.py, src/app/routes/resume.py).                    *)
(*                                                                         *)
(* Numbers.  Python floats are modelled in fixed point: a similarity s is  *)
(* the integer s * SCALE (millionths).  The vectors of the model have      *)
(* integer norms (1 or 5), so every cosine is a whole number of            *)
(* millionths; a product with a factor of the code (0.7, 0.4^k, 0.05) that *)
(* is not is rounded down.  A NaN (0/0 of numpy) is carried as a flag.     *)
(*                                                                         *)
(* Text.  A Python str is a sequence of one-character strings, so that     *)
(* lower(), split() and the `in` substring test are computed, not assumed. *)
(* A SQL NULL text column is the value NULL.                               *)
(*                                                                         *)
(* Inputs.  Requests carry a non-empty user_id; a query has at most two    *)
(* keywords; the experience strings start with a whole number or with a    *)
(* word; the contact column is NULL or a JSON object.  The store starts    *)
(* as a prefix of a seed table in which at most one row deviates (no       *)
(* embedding, an unusable one, or NULL certifications).                    *)
(*                                                                         *)
(* Transactions.  SearchEngine opens a connection, executes its statements *)
(* and closes it without commit.  Whether an UPDATE of verify_database     *)
(* stays depends on the database library the build runs with: with         *)
(* statement-level autocommit it is durable as soon as it returns, without *)
(* it the close rolls it back.  autocommit is that property of the build.  *)
(* The routes write through an AsyncSession and commit.                    *)
(*                                                                         *)
(* Requests.  The read routes are single steps.  The routes that make      *)
(* several round trips to the database or to S3 are modelled step by step, *)
(* with the requests of other workers between their steps: pass is the     *)
(* request of search_candidates in progress, calls holds the calls of      *)
(* SearchEngine.store_resume in progress, one per worker, with the kind of *)
(* server and the AUTO_INCREMENT counter of the table, and bucket is the   *)
(* S3 bucket with the upload in progress.                                  *)
(***************************************************************************)
EXTENDS Integers, Sequences, FiniteSets, TLC

VARIABLES resumes, response, pass, autocommit, calls, bucket

vars == <<resumes, response, pass, autocommit, calls, bucket>>

(***************************************************************************)
(* Bounds of the model.                                                    *)
(***************************************************************************)
\* number of rows of the seed table the store may start with
NumSeed == 8

\* number of rows of the store a backfill pass runs on beside searches
NumBackfill == 3

\* number of backfill passes in one behaviour
MaxPasses == 2

(***************************************************************************)
(* Fixed point.                                                            *)
(***************************************************************************)
SCALE == 1000 * 1000

\* similarities.append threshold, `if similarity > 0.3`
Threshold == (3 * SCALE) \div 10

\* `similarities[:5]`
TopK == 5

(***************************************************************************)
(* Text helpers: str.lower(), str.split(), `a in b`.                       *)
(***************************************************************************)
NULL == <<"NULL">>

LowerChar(c) ==
    CASE c = "P" -> "p"
      [] c = "D" -> "d"
      [] c = "R" -> "r"
      [] c = "G" -> "g"
      [] c = "B" -> "b"
      [] c = "M" -> "m"
      [] c = "S" -> "s"
      [] c = "C" -> "c"
      [] c = "A" -> "a"
      [] OTHER -> c

Lower(s) == [i \in 1..Len(s) |-> LowerChar(s[i])]

\* keyword in text: some window of text equals keyword ("" is in every text)
IsSubstring(k, t) ==
    \E i \in 0..(Len(t) - Len(k)) :
        \A j \in 1..Len(k) : t[i + j] = k[j]

RECURSIVE SplitFrom(_, _, _)
\* str.split(): maximal runs of non-space characters, in order
SplitFrom(s, i, cur) ==
    IF i > Len(s)
    THEN IF cur = <<>> THEN <<>> ELSE <<cur>>
    ELSE IF s[i] = " "
         THEN IF cur = <<>>
              THEN SplitFrom(s, i + 1, <<>>)
              ELSE <<cur>> \o SplitFrom(s, i + 1, <<>>)
         ELSE SplitFrom(s, i + 1, Append(cur, s[i]))

Split(s) == SplitFrom(s, 1, <<>>)

IsDigit(c) == c \in {"0", "1", "2", "3", "4", "5", "6", "7", "8", "9"}

DigitVal(c) ==
    CASE c = "0" -> 0 [] c = "1" -> 1 [] c = "2" -> 2 [] c = "3" -> 3
      [] c = "4" -> 4 [] c = "5" -> 5 [] c = "6" -> 6 [] c = "7" -> 7
      [] c = "8" -> 8 [] c = "9" -> 9

RECURSIVE DigitsVal(_)
DigitsVal(tok) ==
    IF tok = <<>> THEN 0
    ELSE 10 * DigitsVal(SubSeq(tok, 1, Len(tok) - 1)) + DigitVal(tok[Len(tok)])

\* float(token): the model's tokens are digit strings or not numbers at all
\* (-1 stands for ValueError)
ParseFloat(tok) ==
    IF tok # <<>> /\ \A i \in 1..Len(tok) : IsDigit(tok[i])
    THEN DigitsVal(tok)
    ELSE -1

(***************************************************************************)
(* The texts of the model.                                                 *)
(***************************************************************************)
TPython     == <<"P", "y", "t", "h", "o", "n">>
TDjango     == <<"D", "j", "a", "n", "g", "o">>
TRust       == <<"R", "u", "s", "t">>
TPythonDev  == <<"P", "y", "t", "h", "o", "n", " ", "d", "e", "v">>
TGoDev      == <<"G", "o", " ", "d", "e", "v">>
TDev        == <<"d", "e", "v">>
TBSc        == <<"B", "S", "c">>
TMSc        == <<"M", "S", "c">>
TPythonCert == <<"P", "y", "t", "h", "o", "n", " ", "c", "e", "r", "t">>
TSixYears   == <<"6", " ", "y", "e", "a", "r", "s">>
TOneYear    == <<"1", " ", "y", "e", "a", "r">>
TThreeYears == <<"3", " ", "y", "e", "a", "r", "s">>
TSenior     == <<"s", "e", "n", "i", "o", "r">>
TPune       == <<"P", "u", "n", "e">>
TMumbai     == <<"M", "u", "m", "b", "a", "i">>
TDelhi      == <<"D", "e", "l", "h", "i">>
NoText      == <<>>

\* the line break and the indentation of a line of an f-string template
NewLine == <<"\n">>

Spaces(n) == [i \in 1..n |-> " "]

RECURSIVE JoinFrom(_, _, _)
\* sep.join(parts[k:])
JoinFrom(parts, k, sep) ==
    IF k > Len(parts) THEN <<>>
    ELSE IF k = Len(parts) THEN parts[k]
         ELSE parts[k] \o sep \o JoinFrom(parts, k + 1, sep)

\* sep.join(parts)
Join(parts, sep) == JoinFrom(parts, 1, sep)

\* filter(None, parts): the parts that are neither None nor ''
FilterNone(parts) == SelectSeq(parts, LAMBDA t : t # NULL /\ t # <<>>)

\* the labels of the embedding texts
LName       == <<"N", "a", "m", "e", ":", " ">>
LSummary    == <<"S", "u", "m", "m", "a", "r", "y", ":", " ">>
LSkills     == <<"S", "k", "i", "l", "l", "s", ":", " ">>
LExperience == <<"E", "x", "p", "e", "r", "i", "e", "n", "c", "e", ":", " ">>
LEducation  == <<"E", "d", "u", "c", "a", "t", "i", "o", "n", ":", " ">>
LLocation   == <<"L", "o", "c", "a", "t", "i", "o", "n", ":", " ">>

\* one line of a template: line break, indentation, label, value
TemplateLine(indent, label, value) == NewLine \o Spaces(indent) \o label \o value

\* the text of a JSON column holding a list of strings, as json.dumps
\* writes it: ["Python", "Django"]
JsonListText(xs) ==
    <<"[">> \o Join([i \in 1..Len(xs) |-> <<"\"">> \o xs[i] \o <<"\"">>], <<",", " ">>)
        \o <<"]">>

Users == {"u1", "u2"}

\* query texts, location filters (NoText: no filter) and experience filters
\* (0: no filter) a caller may pass to search; NoText as a query is the
\* empty string
Queries == {NoText, TPythonDev, TGoDev, TRust}

Locations == {NoText, TPune, TDelhi}

ExperienceFilters == {0, 5}

\* the Embedder during one call of search: it answers every encode ("up"),
\* raises on the first encode, that of the query ("down"), or answers for
\* the query and raises on the next encode, that of a location string
\* ("downAfterQuery").  What it raises is not a TypeError.
Embedders == {"up", "down", "downAfterQuery"}

(***************************************************************************)
(* The Embedder (SentenceTransformer.encode): a fixed table from text to   *)
(* vector.  Every vector it returns has the same length.                   *)
(***************************************************************************)
Encode(t) ==
    CASE t = TPythonDev -> <<1, 0>>
      [] t = TGoDev     -> <<3, 4>>
      [] t = TRust      -> <<0, 1>>
      [] t = TPune      -> <<1, 0>>
      [] t = TMumbai    -> <<4, 3>>
      [] t = TDelhi     -> <<0, 1>>
      [] OTHER          -> <<3, 4>>

(***************************************************************************)
(* JSON columns: [null |-> TRUE] is SQL NULL, else val is the decoded      *)
(* value.  The embedding column also has the kinds the code tests for.     *)
(***************************************************************************)
JNull == [null |-> TRUE, val |-> <<>>]

JList(xs) == [null |-> FALSE, val |-> xs]

\* contact: a dict with an optional 'location' key (NoText: key absent)
JContact(loc) == [null |-> FALSE, val |-> loc]

\* embedding column: kind "null" (SQL NULL), "empty" (''), "bad" (not JSON),
\* "vec" (a JSON list of numbers)
EmbNull == [kind |-> "null", vec |-> <<>>]

EmbEmpty == [kind |-> "empty", vec |-> <<>>]

EmbBad == [kind |-> "bad", vec |-> <<>>]

EmbVec(v) == [kind |-> "vec", vec |-> v]

(***************************************************************************)
(* The seed table: the rows a store may hold at start.  Row i has id i.    *)
(***************************************************************************)
Catalog ==
    << [name |-> <<"A">>, skills |-> JList(<<TPython, TDjango>>),
        experience |-> TSixYears, education |-> TBSc,
        contact |-> JContact(TPune), summary |-> TPythonDev,
        embedding |-> EmbVec(<<1, 0>>),
        certifications |-> JList(<<>>), work_history |-> JList(<<>>)],
       [name |-> <<"B">>, skills |-> JList(<<TPython, TRust>>),
        experience |-> TThreeYears, education |-> TMSc,
        contact |-> JContact(TMumbai), summary |-> NULL,
        embedding |-> EmbVec(<<4, 3>>),
        certifications |-> JList(<<>>), work_history |-> JList(<<>>)],
       [name |-> <<"C">>, skills |-> JList(<<TRust, TPython>>),
        experience |-> TSenior, education |-> NULL,
        contact |-> JContact(NoText), summary |-> TDev,
        embedding |-> EmbVec(<<4, -3>>),
        certifications |-> JList(<<>>), work_history |-> JNull],
       [name |-> <<"D", "e", "v">>, skills |-> JList(<<>>),
        experience |-> NULL, education |-> TPythonCert,
        contact |-> JNull, summary |-> NULL,
        embedding |-> EmbVec(<<4, 3>>),
        certifications |-> JList(<<>>), work_history |-> JList(<<>>)] >>

SeedOwner(i) == IF i % 3 = 0 THEN "u2" ELSE "u1"

\* the s3_location column: NULL, or the location of the object of a key
S3Null == [null |-> TRUE, key |-> 0]

S3At(key) == [null |-> FALSE, key |-> key]

SeedRow(i) ==
    [id |-> i, user_id |-> SeedOwner(i), s3_location |-> S3Null]
        @@ Catalog[((i - 1) % Len(Catalog)) + 1]

\* ways one stored row can deviate from a well-formed one
Defects == {"nullEmb", "emptyEmb", "badJson", "wrongDim", "zeroVec", "nullCerts"}

WithDefect(row, d) ==
    CASE d = "nullEmb"   -> [row EXCEPT !.embedding = EmbNull]
      [] d = "emptyEmb"  -> [row EXCEPT !.embedding = EmbEmpty]
      [] d = "badJson"   -> [row EXCEPT !.embedding = EmbBad]
      [] d = "wrongDim"  -> [row EXCEPT !.embedding = EmbVec(<<1, 0, 0>>)]
      [] d = "zeroVec"   -> [row EXCEPT !.embedding = EmbVec(<<0, 0>>)]
      [] d = "nullCerts" -> [row EXCEPT !.certifications = JNull]
      [] OTHER           -> row

\* the table: a function from the ids present to their rows
SeedStore(n, at, d) ==
    [i \in 1..n |-> IF i = at THEN WithDefect(SeedRow(i), d) ELSE SeedRow(i)]

NoResponse == [op |-> "none"]

\* the workers that may call SearchEngine.store_resume at the same time
Workers == {"w1", "w2"}

\* no call of store_resume is running and none has run.  strict: the
\* server refuses an INSERT that gives no value to a NOT NULL column
\* without default; auto: the AUTO_INCREMENT counter of the table
NoCalls == [live |-> [w \in Workers |-> [pc |-> "idle"]], started |-> 0,
            last |-> [pc |-> "idle"], strict |-> FALSE, auto |-> 1]

\* no request of POST /api/resume/upload/ is running
NoUpload == [pc |-> "idle", user_id |-> "", key |-> 0, result |-> <<>>,
             row_id |-> 0, failing |-> "none"]

\* the bucket: the keys of its objects, the number of keys given out, and
\* the upload in progress
EmptyBucket == [objects |-> {}, keys |-> 0, upload |-> NoUpload]

\* no request of POST /api/search/search/ is running: pc is the position
\* of the handler, pending the rows its first SELECT returned and the loop
\* has not reached, row the row the turn of the loop read
Idle == [pc |-> "idle", user_id |-> "", pending |-> <<>>, row |-> <<>>,
         before |-> <<>>, run |-> 0, failed |-> FALSE, prevFailed |-> FALSE,
         failedIds |-> {}]

Init ==
    /\ \E n \in 0..NumSeed :
           \/ resumes = SeedStore(n, 0, "none")
           \/ \E at \in 1..n : \E d \in Defects : resumes = SeedStore(n, at, d)
    /\ response = NoResponse
    /\ pass = Idle
    /\ autocommit \in BOOLEAN
    /\ calls = NoCalls
    /\ bucket = EmptyBucket

(***************************************************************************)
(* Vector arithmetic of numpy on the model's vectors.                      *)
(***************************************************************************)
RECURSIVE Dot(_, _)
\* np.dot(a, b) for Len(a) = Len(b)
Dot(a, b) ==
    IF a = <<>> THEN 0
    ELSE a[1] * b[1] + Dot(Tail(a), Tail(b))

\* np.linalg.norm(v); the model's vectors have integer norms
Norm(v) == CHOOSE r \in 0..Dot(v, v) : r * r = Dot(v, v)

Num(x) == [nan |-> FALSE, v |-> x]

NaN == [nan |-> TRUE, v |-> 0]

\* np.dot(a, b) / (norm(a) * norm(b)) for Len(a) = Len(b): 0/0 is nan
Cosine(a, b) ==
    IF Norm(a) * Norm(b) = 0
    THEN NaN
    ELSE Num((Dot(a, b) * SCALE) \div (Norm(a) * Norm(b)))

\* np.dot raises ValueError when the shapes differ
ShapesAligned(a, b) == Len(a) = Len(b)

Add(x, d) == [x EXCEPT !.v = IF x.nan THEN 0 ELSE x.v + d]

MulFrac(x, num, den) == [x EXCEPT !.v = IF x.nan THEN 0 ELSE (x.v * num) \div den]

\* x > t as Python compares floats: False for nan
Greater(x, t) == ~x.nan /\ x.v > t

(***************************************************************************)
(* SearchEngine.search: the steps of the per-row scoring.                  *)
(***************************************************************************)
\* location_similarity of a row, for a non-empty location filter
LocationSimilarity(row, location) ==
    LET resume_location == IF row.contact.null THEN NoText ELSE row.contact.val
    IN  IF resume_location # NoText
        THEN Cosine(Encode(location), Encode(resume_location))
        ELSE Num((3 * SCALE) \div 10)

\* skills_list: a NULL skills column is neither str nor list
SkillsList(row) == IF row.skills.null THEN <<>> ELSE row.skills.val

TextOrEmpty(t) == IF t = NULL THEN NoText ELSE t

\* KeywordMatches with the name of the candidate among the matched texts
KeywordMatchesWithName(row, query) ==
    LET keywords        == Split(Lower(query))
        education_lower == Lower(TextOrEmpty(row.education))
        skills_lower    == [i \in 1..Len(SkillsList(row)) |-> Lower(SkillsList(row)[i])]
        summary_lower   == Lower(TextOrEmpty(row.summary))
        Hit(k) == \/ IsSubstring(k, education_lower)
                  \/ \E i \in 1..Len(skills_lower) : IsSubstring(k, skills_lower[i])
                  \/ IsSubstring(k, summary_lower)
                  \/ IsSubstring(k, Lower(row.name))
    IN  Cardinality({i \in 1..Len(keywords) : Hit(keywords[i])})

\* keyword_matches
KeywordMatches(row, query) ==
    LET keywords        == Split(Lower(query))
        education_lower == Lower(TextOrEmpty(row.education))
        skills_lower    == [i \in 1..Len(SkillsList(row)) |-> Lower(SkillsList(row)[i])]
        summary_lower   == Lower(TextOrEmpty(row.summary))
        Hit(k) == \/ IsSubstring(k, education_lower)
                  \/ \E i \in 1..Len(skills_lower) : IsSubstring(k, skills_lower[i])
                  \/ IsSubstring(k, summary_lower)
    IN  Cardinality({i \in 1..Len(keywords) : Hit(keywords[i])})

\* ApplyKeywords with one boost of 0.1 however many keywords match
ApplyKeywordsFlat(similarity, keyword_matches) ==
    IF keyword_matches = 0
    THEN Num(0)
    ELSE Add(similarity, SCALE \div 10)

\* zero matches set the similarity to 0.0, each match adds 0.1
ApplyKeywords(similarity, keyword_matches) ==
    IF keyword_matches = 0
    THEN Num(0)
    ELSE Add(similarity, keyword_matches * (SCALE \div 10))

\* max(0.0, min(x, 1.0)): min and max of Python keep the first argument
\* when the comparison with nan is False
Clamp01(x) ==
    IF x.nan THEN Num(0)
    ELSE IF x.v > SCALE THEN Num(SCALE)
    ELSE IF x.v < 0 THEN Num(0)
    ELSE x

\* ApplyLocation without the band that leaves the score alone: every
\* affinity that earns no boost is penalised
ApplyLocationNoBand(similarity, location_similarity) ==
    LET clamped == Clamp01(location_similarity)
    IN  IF clamped.v > (7 * SCALE) \div 10
        THEN Add(similarity, clamped.v * 10)
        ELSE MulFrac(similarity, 7, 10)

\* the location boost or penalty, for a non-empty location filter
ApplyLocation(similarity, location_similarity) ==
    LET clamped == Clamp01(location_similarity)
    IN  IF clamped.v > (7 * SCALE) \div 10
        THEN Add(similarity, clamped.v * 10)
        ELSE IF clamped.v < (3 * SCALE) \div 10
             THEN MulFrac(similarity, 7, 10)
             ELSE similarity

RECURSIVE Pow(_, _)
Pow(b, e) == IF e = 0 THEN 1 ELSE b * Pow(b, e - 1)

\* ApplyShortfall with the floor of the penalty at 0.1
ApplyShortfallFloorTenth(similarity, shortfall) ==
    IF 10 * Pow(2, shortfall) > Pow(5, shortfall)
    THEN MulFrac(similarity, Pow(2, shortfall), Pow(5, shortfall))
    ELSE MulFrac(similarity, 1, 10)

\* similarity *= max(0.05, 0.4 ** shortfall), for a whole shortfall >= 1
ApplyShortfall(similarity, shortfall) ==
    IF 20 * Pow(2, shortfall) > Pow(5, shortfall)
    THEN MulFrac(similarity, Pow(2, shortfall), Pow(5, shortfall))
    ELSE MulFrac(similarity, 1, 20)

\* the experience step: experience_years = 0 is "no filter"
ApplyExperience(similarity, row, experience_years) ==
    IF experience_years # 0 /\ row.experience # NULL /\ row.experience # NoText
    THEN LET tokens == Split(row.experience)
             exp_years == IF tokens = <<>> THEN -1 ELSE ParseFloat(tokens[1])
         IN  IF exp_years = -1
             THEN MulFrac(similarity, 4, 10)
             ELSE IF exp_years < experience_years
                  THEN ApplyShortfall(similarity, experience_years - exp_years)
                  ELSE similarity
    ELSE similarity

\* the running similarity of a row whose embedding decodes to a vector of
\* the query's length, after each step of the loop body (final is
\* FinalSimilarity):
\*   base      the cosine of the query vector and the stored vector
\*   kw        after the keyword step
\*   affinity  location_similarity (1.0 when the request has no location)
\*   loc       after the location step
\*   final     after the experience step
ScoreSteps(row, query, location, experience_years) ==
    LET base == Cosine(Encode(query), row.embedding.vec)
        kw   == ApplyKeywords(base, KeywordMatches(row, query))
        affinity == IF location # NoText
                    THEN LocationSimilarity(row, location)
                    ELSE Num(SCALE)
        loc  == IF location # NoText
                THEN ApplyLocation(kw, affinity)
                ELSE kw
    IN  [base |-> base, kw |-> kw, affinity |-> affinity, loc |-> loc,
         final |-> ApplyExperience(loc, row, experience_years)]

\* the unclamped similarity of a row whose embedding decodes to a vector of
\* the query's length
FinalSimilarity(row, query, location, experience_years) ==
    LET base == Cosine(Encode(query), row.embedding.vec)
        kw   == ApplyKeywords(base, KeywordMatches(row, query))
        loc  == IF location # NoText
                THEN ApplyLocation(kw, LocationSimilarity(row, location))
                ELSE kw
    IN  ApplyExperience(loc, row, experience_years)

\* PassesThreshold with the cut at 0.0
PassesThresholdPositive(similarity) == Greater(similarity, 0)

\* `if similarity > 0.3`
PassesThreshold(similarity) == Greater(similarity, Threshold)

\* the location block encodes the filter and the location of the row
EncodesLocation(row, location) ==
    /\ location # NoText
    /\ ~row.contact.null
    /\ row.contact.val # NoText

\* ScoreRow with the exception of the Embedder handled per row, like a
\* TypeError
ScoreRowEmbedderAbsorbed(row, query, location, experience_years, embedder) ==
    IF row.embedding.kind \in {"null", "empty"}
    THEN [outcome |-> "skip", similarity |-> Num(0), keyword_matches |-> 0]
    ELSE IF embedder = "downAfterQuery" /\ EncodesLocation(row, location)
    THEN [outcome |-> "skip", similarity |-> Num(0), keyword_matches |-> 0]
    ELSE IF row.embedding.kind = "bad"
    THEN [outcome |-> "skip", similarity |-> Num(0), keyword_matches |-> 0]
    ELSE IF ~ShapesAligned(Encode(query), row.embedding.vec)
    THEN [outcome |-> "raise", similarity |-> Num(0), keyword_matches |-> 0]
    ELSE [outcome |-> "scored",
          similarity |-> FinalSimilarity(row, query, location, experience_years),
          keyword_matches |-> KeywordMatches(row, query)]

\* ScoreRow without the skip of a falsy embedding: the row is scored on its
\* keywords alone, from a base similarity of 0.0
ScoreRowUnindexedScored(row, query, location, experience_years, embedder) ==
    IF row.embedding.kind \in {"null", "empty"}
    THEN [outcome |-> "scored",
          similarity |-> ApplyKeywords(Num(0), KeywordMatches(row, query)),
          keyword_matches |-> KeywordMatches(row, query)]
    ELSE IF embedder = "downAfterQuery" /\ EncodesLocation(row, location)
    THEN [outcome |-> "raise", similarity |-> Num(0), keyword_matches |-> 0]
    ELSE IF row.embedding.kind = "bad"
    THEN [outcome |-> "skip", similarity |-> Num(0), keyword_matches |-> 0]
    ELSE IF ~ShapesAligned(Encode(query), row.embedding.vec)
    THEN [outcome |-> "raise", similarity |-> Num(0), keyword_matches |-> 0]
    ELSE [outcome |-> "scored",
          similarity |-> FinalSimilarity(row, query, location, experience_years),
          keyword_matches |-> KeywordMatches(row, query)]

\* what the loop body does with one row:
\*   "skip"   continue (falsy embedding, or JSONDecodeError / TypeError)
\*   "raise"  an exception the per-row handler does not catch (the one of
\*            the Embedder, or the ValueError of np.dot)
\*   "scored" the row got a similarity (keyword_matches is the counter of
\*            the keyword loop)
ScoreRow(row, query, location, experience_years, embedder) ==
    IF row.embedding.kind \in {"null", "empty"}
    THEN [outcome |-> "skip", similarity |-> Num(0), keyword_matches |-> 0]
    ELSE IF embedder = "downAfterQuery" /\ EncodesLocation(row, location)
    THEN [outcome |-> "raise", similarity |-> Num(0), keyword_matches |-> 0]
    ELSE IF row.embedding.kind = "bad"
    THEN [outcome |-> "skip", similarity |-> Num(0), keyword_matches |-> 0]
    ELSE IF ~ShapesAligned(Encode(query), row.embedding.vec)
    THEN [outcome |-> "raise", similarity |-> Num(0), keyword_matches |-> 0]
    ELSE [outcome |-> "scored",
          similarity |-> FinalSimilarity(row, query, location, experience_years),
          keyword_matches |-> KeywordMatches(row, query)]

(***************************************************************************)
(* SearchEngine.search: fetch, loop, sort, truncate, clamp, narrate.       *)
(***************************************************************************)
RECURSIVE SortedIds(_)
\* the ids of a set in ascending order (the order the table returns rows)
SortedIds(ids) ==
    IF ids = {} THEN <<>>
    ELSE LET m == CHOOSE x \in ids : \A y \in ids : x <= y
         IN  <<m>> \o SortedIds(ids \ {m})

\* FetchForSearch without the user_id condition of the WHERE clause
FetchForSearchAnyUser(store, user_id) ==
    LET ids == {i \in DOMAIN store : store[i].embedding.kind # "null"}
    IN  [k \in 1..Cardinality(ids) |-> store[SortedIds(ids)[k]]]

\* SELECT ... FROM resumes WHERE embedding IS NOT NULL AND user_id = :user_id
FetchForSearch(store, user_id) ==
    LET ids == {i \in DOMAIN store :
                    store[i].embedding.kind # "null" /\ store[i].user_id = user_id}
    IN  [k \in 1..Cardinality(ids) |-> store[SortedIds(ids)[k]]]

RECURSIVE ScoreLoop(_, _, _, _, _, _, _)
\* the for loop over rows, from row k on: raised is set when a row raises
\* out of the loop, similarities are the appended (similarity, row) pairs,
\* scored records every similarity the loop computed
ScoreLoop(rows, k, query, location, experience_years, embedder, acc) ==
    IF k > Len(rows) THEN acc
    ELSE LET r == ScoreRow(rows[k], query, location, experience_years, embedder)
         IN  IF r.outcome = "raise"
             THEN [acc EXCEPT !.raised = TRUE]
             ELSE IF r.outcome = "skip"
             THEN ScoreLoop(rows, k + 1, query, location, experience_years,
                      embedder, acc)
             ELSE ScoreLoop(rows, k + 1, query, location, experience_years,
                      embedder,
                      [acc EXCEPT
                          !.scored = Append(@, [id |-> rows[k].id,
                                                similarity |-> r.similarity,
                                                keyword_matches |-> r.keyword_matches]),
                          !.similarities =
                              IF PassesThreshold(r.similarity)
                              THEN Append(@, [similarity |-> r.similarity.v,
                                              row |-> rows[k]])
                              ELSE @])

\* TupleLess with the comparison of the rows inverted
TupleLessTieInverted(a, b) ==
    \/ a.similarity < b.similarity
    \/ a.similarity = b.similarity /\ a.row.id > b.row.id

\* (similarity, row) tuples compare by similarity, then by the row, whose
\* first column is the id
TupleLess(a, b) ==
    \/ a.similarity < b.similarity
    \/ a.similarity = b.similarity /\ a.row.id < b.row.id

RECURSIVE SortReverse(_)
\* similarities.sort(reverse=True)
SortReverse(pairs) ==
    IF pairs = <<>> THEN <<>>
    ELSE LET m == CHOOSE i \in 1..Len(pairs) :
                      \A j \in 1..Len(pairs) : j = i \/ TupleLess(pairs[j], pairs[i])
             rest == [j \in 1..(Len(pairs) - 1) |->
                          IF j < m THEN pairs[j] ELSE pairs[j + 1]]
         IN  <<pairs[m]>> \o SortReverse(rest)

\* TopSlice without the slice
TopSliceAll(pairs) == pairs

\* similarities[:5]
TopSlice(pairs) == SubSeq(pairs, 1, IF Len(pairs) < TopK THEN Len(pairs) ELSE TopK)

\* ClampScore without the clamp
ClampScoreNone(similarity) == similarity

\* sim_val = max(0.0, min(float(similarity), 1.0))
ClampScore(similarity) == Clamp01(Num(similarity)).v

\* one element of matches
BuildMatch(pair) ==
    [id |-> pair.row.id, name |-> pair.row.name, skills |-> pair.row.skills,
     certifications |-> pair.row.certifications,
     work_history |-> pair.row.work_history,
     similarity_score |-> ClampScore(pair.similarity)]

\* the analysis strings of search
AnalysisNoResumes == "No resumes found in your database."

AnalysisNoMatches == "No matching resumes found for your search criteria."

AnalysisFallback  == "Error generating analysis. Please try again."

AnalysisSearchError == "Error performing search: ..."

AnalysisNarrated == "<narrator response>"

\* building the context string joins skills and certifications of every
\* match: a NULL (None) one raises TypeError, outside the try of call_groq
ContextRaises(matches) ==
    \E i \in 1..Len(matches) :
        matches[i].skills.null \/ matches[i].certifications.null

\* generate_answer_with_rag for a non-empty list
GenerateAnswerWithRag(matches, narratorUp) ==
    IF ContextRaises(matches)
    THEN [raised |-> TRUE, text |-> ""]
    ELSE IF narratorUp
         THEN [raised |-> FALSE, text |-> AnalysisNarrated]
         ELSE [raised |-> FALSE, text |-> AnalysisFallback]

\* the handler of `except Exception` around the whole of search
SearchFailed == [matches |-> <<>>, analysis |-> AnalysisSearchError, scored |-> <<>>]

\* search(query, location, experience_years, user_id) on a store, with the
\* state of the Embedder and of the Narrator; scored is not part of the
\* return value: it records the similarities the loop computed
SearchResult(store, user_id, query, location, experience_years, embedder, narratorUp) ==
    IF embedder = "down" THEN SearchFailed
    ELSE LET rows == FetchForSearch(store, user_id)
         IN  IF rows = <<>>
             THEN [matches |-> <<>>, analysis |-> AnalysisNoResumes, scored |-> <<>>]
             ELSE LET loop == ScoreLoop(rows, 1, query, location, experience_years,
                                  embedder,
                                  [raised |-> FALSE, scored |-> <<>>,
                                   similarities |-> <<>>])
                      top == TopSlice(SortReverse(loop.similarities))
                      matches == [i \in 1..Len(top) |-> BuildMatch(top[i])]
                  IN  IF loop.raised
                      THEN [SearchFailed EXCEPT !.scored = loop.scored]
                      ELSE IF matches = <<>>
                      THEN [matches |-> <<>>, analysis |-> AnalysisNoMatches,
                            scored |-> loop.scored]
                      ELSE LET rag == GenerateAnswerWithRag(matches, narratorUp)
                           IN  IF rag.raised
                               THEN [SearchFailed EXCEPT !.scored = loop.scored]
                               ELSE [matches |-> matches, analysis |-> rag.text,
                                     scored |-> loop.scored]

\* a call of SearchEngine.search
Search(user_id, query, location, experience_years, embedder, narratorUp) ==
    /\ response = NoResponse
    /\ response' = [op |-> "search", user_id |-> user_id, query |-> query,
                    location |-> location, experience_years |-> experience_years,
                    embedder |-> embedder, narratorUp |-> narratorUp,
                    result |-> SearchResult(resumes, user_id, query, location,
                                   experience_years, embedder, narratorUp)]
    /\ UNCHANGED <<resumes, pass, autocommit, calls, bucket>>

(***************************************************************************)
(* SearchEngine.semantic_search: no user_id parameter and no user filter.  *)
(***************************************************************************)
\* SELECT ... FROM resumes WHERE embedding IS NOT NULL
FetchWithEmbedding(store) ==
    LET ids == {i \in DOMAIN store : store[i].embedding.kind # "null"}
    IN  [k \in 1..Cardinality(ids) |-> store[SortedIds(ids)[k]]]

\* the loop of semantic_search: "raise" when np.dot raises, else the number
\* of (similarity, id) pairs appended
SemanticLoop(rows, query) ==
    IF \E k \in 1..Len(rows) :
           /\ rows[k].embedding.kind = "vec"
           /\ ~ShapesAligned(Encode(query), rows[k].embedding.vec)
    THEN [raised |-> TRUE, appended |-> 0]
    ELSE [raised |-> FALSE,
          appended |-> Cardinality({k \in 1..Len(rows) : rows[k].embedding.kind = "vec"})]

\* the rows semantic_search returns.  When similarities is not empty the
\* second SELECT is executed with qmark placeholders and a list of ints as
\* its parameters: it raises, and `except Exception` returns []
SemanticSearchResult(store, query, embedderUp) ==
    IF ~embedderUp THEN <<>>
    ELSE LET rows == FetchWithEmbedding(store)
             loop == SemanticLoop(rows, query)
         IN  IF rows = <<>> THEN <<>>
             ELSE IF loop.raised THEN <<>>
             ELSE IF loop.appended = 0 THEN <<>>
             ELSE <<>>

\* the ids and owners of a sequence of rows, as a response carries them
Returned(rows) == [k \in 1..Len(rows) |-> [id |-> rows[k].id, user_id |-> rows[k].user_id]]

SemanticSearch(user_id, query, embedderUp) ==
    /\ response = NoResponse
    /\ response' = [op |-> "semantic_search", user_id |-> user_id, query |-> query,
                    rows |-> Returned(SemanticSearchResult(resumes, query, embedderUp))]
    /\ UNCHANGED <<resumes, pass, autocommit, calls, bucket>>

(***************************************************************************)
(* services/database.py behind the routes of routes/resume.py.  user_id is *)
(* the user the middleware of main.py identified for the request.          *)
(***************************************************************************)
AllRows(store) == [k \in 1..Cardinality(DOMAIN store) |-> store[SortedIds(DOMAIN store)[k]]]

\* SELECT * FROM resumes WHERE id = :id
DbGetResume(store, resume_id) ==
    IF resume_id \in DOMAIN store THEN <<store[resume_id]>> ELSE <<>>

\* SELECT * FROM resumes LIMIT :limit OFFSET :skip
DbGetAllResumes(store, skip, limit) ==
    LET all == AllRows(store)
        last == IF skip + limit < Len(all) THEN skip + limit ELSE Len(all)
    IN  SubSeq(all, skip + 1, last)

\* name LIKE %q% OR summary LIKE %q% OR skills LIKE %q% (case-insensitive)
LikeMatches(row, query) ==
    \/ IsSubstring(Lower(query), Lower(row.name))
    \/ row.summary # NULL /\ IsSubstring(Lower(query), Lower(row.summary))
    \/ \E i \in 1..Len(SkillsList(row)) :
           IsSubstring(Lower(query), Lower(SkillsList(row)[i]))

RECURSIVE SelectSeq2(_, _, _)
SelectSeq2(rows, k, query) ==
    IF k > Len(rows) THEN <<>>
    ELSE IF LikeMatches(rows[k], query)
         THEN <<rows[k]>> \o SelectSeq2(rows, k + 1, query)
         ELSE SelectSeq2(rows, k + 1, query)

DbSearchResumes(store, query) == SelectSeq2(AllRows(store), 1, query)

\* the Python type of a column of a row of `SELECT *` run as text(): the
\* driver delivers a String or Text column as str, a JSON column as the
\* text of its document, also str, and NULL as None
RawText(value) == IF value = NULL THEN "None" ELSE "str"

RawJson(column) == IF column.null THEN "None" ELSE "str"

\* result.fetchone() / result.fetchall(): the rows as the functions of
\* services/database.py return them and the handlers of routes/resume.py
\* pass them on, each with the record it is (id) and its owner (user_id)
RawRows(rows) ==
    [k \in 1..Len(rows) |->
        [id             |-> rows[k].id,
         user_id        |-> rows[k].user_id,
         name           |-> RawText(rows[k].name),
         skills         |-> RawJson(rows[k].skills),
         experience     |-> RawText(rows[k].experience),
         education      |-> RawText(rows[k].education),
         contact        |-> RawJson(rows[k].contact),
         summary        |-> RawText(rows[k].summary),
         certifications |-> RawJson(rows[k].certifications),
         work_history   |-> RawJson(rows[k].work_history)]]

\* the fields ResumeUploadResponse declares, against the types of a raw
\* row: name, experience, education, summary: str; skills: List[str];
\* contact: Dict[str, str]; certifications, work_history: Optional lists
\* (s3_location and created_at accept every value the table holds)
Conforms(raw) ==
    /\ raw.name = "str"
    /\ raw.skills = "list"
    /\ raw.experience = "str"
    /\ raw.education = "str"
    /\ raw.contact = "dict"
    /\ raw.summary = "str"
    /\ raw.certifications \in {"list", "None"}
    /\ raw.work_history \in {"list", "None"}

\* what the client receives of the raw rows a handler of routes/resume.py
\* returns: the rows when every one passes the validation against the
\* response_model, and no row when one fails
Validated(raws) ==
    IF \A k \in 1..Len(raws) : Conforms(raws[k]) THEN Returned(raws) ELSE <<>>

\* the status of the response: the failed validation answers 500
ValidatedStatus(raws) ==
    IF \A k \in 1..Len(raws) : Conforms(raws[k]) THEN 200 ELSE 500

\* GET /api/resume/resumes/{resume_id}.  returned: what the handler
\* returns; rows: what the client receives of it
GetResumeById(user_id, resume_id) ==
    /\ response = NoResponse
    /\ LET resume == RawRows(DbGetResume(resumes, resume_id))
       IN  response' = [op |-> "get_resume_by_id", user_id |-> user_id,
                        resume_id |-> resume_id,
                        returned |-> Returned(resume),
                        status |-> IF resume = <<>> THEN 404
                                   ELSE ValidatedStatus(resume),
                        rows |-> Validated(resume)]
    /\ UNCHANGED <<resumes, pass, autocommit, calls, bucket>>

\* GET /api/resume/resumes/
ListResumes(user_id, skip, limit) ==
    /\ response = NoResponse
    /\ LET all == RawRows(DbGetAllResumes(resumes, skip, limit))
       IN  response' = [op |-> "list_resumes", user_id |-> user_id,
                        skip |-> skip, limit |-> limit,
                        returned |-> Returned(all),
                        status |-> ValidatedStatus(all),
                        rows |-> Validated(all)]
    /\ UNCHANGED <<resumes, pass, autocommit, calls, bucket>>

\* GET /api/resume/resumes/search/
SearchResumesByQuery(user_id, query) ==
    /\ response = NoResponse
    /\ LET found == RawRows(DbSearchResumes(resumes, query))
       IN  response' = [op |-> "search_resumes_by_query", user_id |-> user_id,
                        query |-> query,
                        returned |-> Returned(found),
                        status |-> ValidatedStatus(found),
                        rows |-> Validated(found)]
    /\ UNCHANGED <<resumes, pass, autocommit, calls, bucket>>

(***************************************************************************)
(* Read routes of routes/search.py.                                        *)
(***************************************************************************)
RECURSIVE OwnedFrom(_, _, _)
OwnedFrom(rows, k, user_id) ==
    IF k > Len(rows) THEN <<>>
    ELSE IF rows[k].user_id = user_id
         THEN <<rows[k]>> \o OwnedFrom(rows, k + 1, user_id)
         ELSE OwnedFrom(rows, k + 1, user_id)

\* SELECT ... FROM resumes WHERE user_id = :user_id
RowsOfUser(store, user_id) == OwnedFrom(AllRows(store), 1, user_id)

\* GET /api/search/all/
GetAllResumes(user_id) ==
    /\ response = NoResponse
    /\ response' = [op |-> "get_all_resumes", user_id |-> user_id, status |-> 200,
                    rows |-> Returned(RowsOfUser(resumes, user_id))]
    /\ UNCHANGED <<resumes, pass, autocommit, calls, bucket>>

\* SELECT ... WHERE id = :resume_id AND user_id = :user_id
RowOfUser(store, resume_id, user_id) ==
    IF resume_id \in DOMAIN store /\ store[resume_id].user_id = user_id
    THEN <<store[resume_id]>>
    ELSE <<>>

\* GET /api/search/resumes/{resume_id}: the HTTPException(404) is raised
\* inside the try and caught by `except Exception`, which answers 500 with
\* a detail that starts with "Error retrieving resume: "
GetResume(user_id, resume_id) ==
    /\ response = NoResponse
    /\ response' = [op |-> "get_resume", user_id |-> user_id,
                    resume_id |-> resume_id,
                    status |-> IF RowOfUser(resumes, resume_id, user_id) = <<>>
                               THEN 500 ELSE 200,
                    detail |-> IF RowOfUser(resumes, resume_id, user_id) = <<>>
                               THEN "Error retrieving resume: ..." ELSE "",
                    rows |-> Returned(RowOfUser(resumes, resume_id, user_id))]
    /\ UNCHANGED <<resumes, pass, autocommit, calls, bucket>>

\* GET /api/search/resume/{resume_id} (get_resume_details): the same SELECT
\* and the same handling of the missing row, with its own detail; the row
\* found is returned restructured
GetResumeDetails(user_id, resume_id) ==
    /\ response = NoResponse
    /\ response' = [op |-> "get_resume_details", user_id |-> user_id,
                    resume_id |-> resume_id,
                    status |-> IF RowOfUser(resumes, resume_id, user_id) = <<>>
                               THEN 500 ELSE 200,
                    detail |-> IF RowOfUser(resumes, resume_id, user_id) = <<>>
                               THEN "Error retrieving resume details: ..." ELSE "",
                    rows |-> Returned(RowOfUser(resumes, resume_id, user_id))]
    /\ UNCHANGED <<resumes, pass, autocommit, calls, bucket>>

(***************************************************************************)
(* SearchEngine.verify_database and POST /api/search/search/.              *)
(***************************************************************************)
\* the text verify_database embeds for a row: the f-string of six labelled
\* lines, each on a line of its own behind 32 spaces.  A NULL summary,
\* experience or education is '', the skills are the text of the column or
\* '[]', the location is contact['location'] or ''
EmbeddingText(row) ==
    TemplateLine(32, LName, row.name)
        \o TemplateLine(32, LSummary, TextOrEmpty(row.summary))
        \o TemplateLine(32, LSkills, IF row.skills.null THEN <<"[", "]">>
                                     ELSE JsonListText(row.skills.val))
        \o TemplateLine(32, LExperience, TextOrEmpty(row.experience))
        \o TemplateLine(32, LEducation, TextOrEmpty(row.education))
        \o TemplateLine(32, LLocation, IF row.contact.null THEN NoText
                                       ELSE row.contact.val)
        \o NewLine \o Spaces(32)

\* SELECT id, name FROM resumes WHERE embedding IS NULL OR embedding = ''
MissingEmbeddings(store) ==
    {i \in DOMAIN store : store[i].embedding.kind \in {"null", "empty"}}

\* Regenerate with a vector cut short
RegenerateTruncated(row) == EmbVec(<<3>>)

\* json.dumps(self.model.encode(embedding_text).tolist())
Regenerate(row) == EmbVec(Encode(EmbeddingText(row)))

\* the second clamp, of the route: max(0.0, min(float(sim), 1.0))
RouteClamp(sim) == Clamp01(Num(sim)).v

\* processed_results of the route
ProcessMatches(store, matches) ==
    [k \in 1..Len(matches) |->
        [id |-> matches[k].id, user_id |-> store[matches[k].id].user_id,
         similarity_score |-> RouteClamp(matches[k].similarity_score)]]

\* the response leaves the handler
Reply ==
    /\ response # NoResponse
    /\ response' = NoResponse
    /\ UNCHANGED <<resumes, pass, autocommit, calls, bucket>>

\* resume ids a request may name: the seeded ones and one that never exists
RequestIds == 0..NumSeed

Next ==
    \/ \E u \in Users, q \in Queries, l \in Locations, e \in ExperienceFilters,
          em \in Embedders, nu \in BOOLEAN : Search(u, q, l, e, em, nu)
    \/ \E u \in Users, q \in Queries, eu \in BOOLEAN : SemanticSearch(u, q, eu)
    \/ \E u \in Users, i \in RequestIds : GetResumeById(u, i)
    \/ \E u \in Users, skip \in {0, 1}, limit \in {2, 100} : ListResumes(u, skip, limit)
    \/ \E u \in Users, q \in {TPython, TDev} : SearchResumesByQuery(u, q)
    \/ \E u \in Users : GetAllResumes(u)
    \/ \E u \in Users, i \in RequestIds : GetResume(u, i)
    \/ \E u \in Users, i \in RequestIds : GetResumeDetails(u, i)
    \/ Reply

Spec == Init /\ [][Next]_vars

(***************************************************************************)
(* POST /api/search/search/ (search_candidates) step by step, beside the   *)
(* searches and the clear-index requests of other workers.  The handler    *)
(* calls verify_database, whose loop makes two round trips to the database *)
(* per row with the encode between them, then resolves the filters, then   *)
(* calls search.  pass is the request in progress: the ids the first       *)
(* SELECT returned and the loop has not handled yet (pending), the row the *)
(* turn read (row), the user of the request, and, for the properties, the  *)
(* store when the pass started (before), its number (run), whether an      *)
(* encode raised in it (failed), for which rows (failedIds), or in the     *)
(* pass before it (prevFailed).                                            *)
(***************************************************************************)
\* the store a pass may start on: any rows of the seed table lack their
\* embedding, as NULL (odd ids) or as '' (even ids)
BackfillStore(n, missing) ==
    [i \in 1..n |->
        IF i \in missing
        THEN WithDefect(SeedRow(i), IF i % 2 = 1 THEN "nullEmb" ELSE "emptyEmb")
        ELSE SeedRow(i)]

InitBackfill ==
    /\ \E n \in 0..NumBackfill : \E missing \in SUBSET (1..n) :
           resumes = BackfillStore(n, missing)
    /\ response = NoResponse
    /\ pass = Idle
    /\ autocommit \in BOOLEAN
    /\ calls = NoCalls
    /\ bucket = EmptyBucket

\* POST /api/search/search/ of user_id arrives and calls verify_database:
\* the first SELECT returns the rows without embedding
VerifyBegin(user_id) ==
    /\ pass.pc = "idle"
    /\ pass.run < MaxPasses
    /\ pass' = [pc |-> "fix", user_id |-> user_id,
                pending |-> SortedIds(MissingEmbeddings(resumes)),
                row |-> <<>>, before |-> resumes, run |-> pass.run + 1,
                failed |-> FALSE, prevFailed |-> pass.failed, failedIds |-> {}]
    /\ UNCHANGED <<resumes, response, autocommit, calls, bucket>>

\* a turn of the loop starts: SELECT ... WHERE id = :id.  When the row is
\* no longer there `if resume_data:` is false and the turn is over, with
\* no exception
VerifySelect ==
    /\ pass.pc = "fix"
    /\ pass.pending # <<>>
    /\ LET resume_id == Head(pass.pending)
       IN  pass' = IF resume_id \in DOMAIN resumes
                   THEN [pass EXCEPT !.pc = "encode", !.row = resumes[resume_id]]
                   ELSE [pass EXCEPT !.pending = Tail(@)]
    /\ UNCHANGED <<resumes, response, autocommit, calls, bucket>>

\* the turn goes on: the text of the row that was read is encoded and the
\* UPDATE sets the embedding of the row of that id, if there still is one;
\* when the Embedder raises, the handler of the loop prints and continues
VerifyUpdate(embedderUp) ==
    /\ pass.pc = "encode"
    /\ LET resume_id == Head(pass.pending)
       IN  IF embedderUp
           THEN /\ resumes' = IF autocommit /\ resume_id \in DOMAIN resumes
                               THEN [resumes EXCEPT ![resume_id].embedding =
                                        Regenerate(pass.row)]
                               ELSE resumes
                /\ pass' = [pass EXCEPT !.pc = "fix", !.row = <<>>,
                                        !.pending = Tail(@)]
           ELSE /\ resumes' = resumes
                /\ pass' = [pass EXCEPT !.pc = "fix", !.row = <<>>,
                                        !.pending = Tail(@), !.failed = TRUE,
                                        !.failedIds = @ \cup {resume_id}]
    /\ UNCHANGED <<response, autocommit, calls, bucket>>

\* the loop is over: verify_database returns True, its connection closes,
\* and the handler goes on to resolve the filters of the query (call_groq)
VerifyEnd ==
    /\ pass.pc = "fix"
    /\ pass.pending = <<>>
    /\ pass' = [pass EXCEPT !.pc = "search"]
    /\ UNCHANGED <<resumes, response, autocommit, calls, bucket>>

\* the handler calls search, which reads the table on a connection of its
\* own, and answers.  location and experience_years are the values the
\* handler resolved (given by the caller, extracted by the LLM, or none)
SearchCandidates(query, location, experience_years, embedder, narratorUp) ==
    /\ pass.pc = "search"
    /\ response = NoResponse
    /\ \E results \in {SearchResult(resumes, pass.user_id, query, location,
                           experience_years, embedder, narratorUp)} :
           response' = [op |-> "search_candidates", user_id |-> pass.user_id,
                        status |-> 200,
                        rows |-> ProcessMatches(resumes, results.matches)]
    /\ pass' = [pass EXCEPT !.pc = "idle"]
    /\ UNCHANGED <<resumes, autocommit, calls, bucket>>

\* DELETE /api/search/clear-index/ of another worker: the rows of the user
\* are deleted and the delete is committed
ClearIndex(user_id) ==
    /\ resumes' = [i \in {j \in DOMAIN resumes : resumes[j].user_id # user_id}
                      |-> resumes[i]]
    /\ resumes' # resumes
    /\ UNCHANGED <<response, pass, autocommit, calls, bucket>>

\* SearchEngine.clear_index(user_id): DELETE of the rows of the user, or of
\* every row when user_id is None or '', on a connection that is closed
\* without commit: the rows are gone only on a build that commits each
\* statement
EngineClearIndex(user_id) ==
    /\ autocommit
    /\ resumes' = [i \in {j \in DOMAIN resumes :
                              user_id # "" /\ resumes[j].user_id # user_id}
                      |-> resumes[i]]
    /\ resumes' # resumes
    /\ UNCHANGED <<response, pass, autocommit, calls, bucket>>

NextBackfill ==
    \/ \E u \in Users : VerifyBegin(u)
    \/ VerifySelect
    \/ \E eu \in BOOLEAN : VerifyUpdate(eu)
    \/ VerifyEnd
    \/ \E q \in Queries, l \in Locations, e \in ExperienceFilters,
          em \in Embedders, nu \in BOOLEAN : SearchCandidates(q, l, e, em, nu)
    \/ \E u \in Users : ClearIndex(u)
    \/ \E u \in Users \cup {""} : EngineClearIndex(u)
    \/ \E u \in Users, q \in Queries, l \in {NoText, TPune} :
           Search(u, q, l, 0, "up", TRUE)
    \/ Reply

BackfillSpec == InitBackfill /\ [][NextBackfill]_vars

(***************************************************************************)
(* SearchEngine.store_resume step by step, for workers that call it at the *)
(* same time, beside clear-index requests.  A call encodes the text of the *)
(* resume, opens a connection, SELECTs the id of a row with the name and   *)
(* the user_id, then UPDATEs the rows of that pair or INSERTs a new row    *)
(* and asks for its id, reads the embedding back on the same connection    *)
(* and returns the id; it never commits.  The table has no unique key on   *)
(* (name, user_id) and the call takes no lock, so every statement of a     *)
(* call is a step with the steps of other requests between them.           *)
(* calls.live[w] is the call of worker w (stored: the ids its SELECT       *)
(* matched, wrote: the ids its write touched), calls.last the call that    *)
(* returned last.                                                          *)
(***************************************************************************)
\* calls of one run
MaxStores == 3

\* rows the table may hold when the calls start
NumStoreSeed == 2

\* resume_data of a call: the profile "A" under a name, for a user, with a
\* summary
ResumeData(name, user_id, summary) ==
    [name |-> name, user_id |-> user_id, skills |-> <<TPython, TDjango>>,
     experience |-> TSixYears, education |-> TBSc, contact |-> TPune,
     summary |-> summary]

StoreInputs ==
    {ResumeData(name, u, summary) :
        name \in {<<"A">>}, u \in Users, summary \in {TPythonDev, TDev}}

\* the text store_resume embeds when resume_data has no embedding_text:
\* five labelled lines behind 16 spaces, the skills joined with ', '
StoreEmbeddingText(data) ==
    TemplateLine(16, LName, data.name)
        \o TemplateLine(16, LSummary, data.summary)
        \o TemplateLine(16, LSkills, Join(data.skills, <<",", " ">>))
        \o TemplateLine(16, LExperience, data.experience)
        \o TemplateLine(16, LEducation, data.education)
        \o NewLine \o Spaces(16)

\* the row of the INSERT: the columns it does not name are NULL
InsertedRow(id, data) ==
    [id |-> id, user_id |-> data.user_id, s3_location |-> S3Null,
     name |-> data.name, skills |-> JList(data.skills),
     experience |-> data.experience, education |-> data.education,
     contact |-> JContact(data.contact), summary |-> data.summary,
     embedding |-> EmbVec(Encode(StoreEmbeddingText(data))),
     certifications |-> JNull, work_history |-> JNull]

\* the row after the UPDATE
UpdatedRow(row, data) ==
    [row EXCEPT !.skills = JList(data.skills), !.experience = data.experience,
                !.education = data.education, !.contact = JContact(data.contact),
                !.summary = data.summary,
                !.embedding = EmbVec(Encode(StoreEmbeddingText(data)))]

\* the ids of the rows WHERE name = :name AND user_id = :user_id
RowsOfPair(store, data) ==
    {i \in DOMAIN store : store[i].name = data.name /\ store[i].user_id = data.user_id}

\* worker w starts a call: encode, then the SELECT.  fetchone() takes the
\* first row of a SELECT without ORDER BY, which may be any matching row.
StoreSelect(w, data, embedderUp) ==
    /\ calls.live[w].pc \in {"idle", "done"}
    /\ calls.started < MaxStores
    /\ IF ~embedderUp
       THEN LET call == [pc |-> "done", data |-> data, stored |-> {},
                         existing |-> 0, wrote |-> {}, resume_id |-> 0,
                         raised |-> TRUE]
            IN  calls' = [calls EXCEPT !.live[w] = call, !.last = call,
                                       !.started = @ + 1]
       ELSE \E existing \in IF RowsOfPair(resumes, data) = {}
                             THEN {0} ELSE RowsOfPair(resumes, data) :
                calls' = [calls EXCEPT
                             !.live[w] = [pc |-> "selected", data |-> data,
                                          stored |-> RowsOfPair(resumes, data),
                                          existing |-> existing, wrote |-> {},
                                          resume_id |-> 0, raised |-> FALSE],
                             !.started = @ + 1]
    /\ UNCHANGED <<resumes, response, pass, autocommit, bucket>>

\* worker w goes on: the UPDATE of the rows of the pair, or the INSERT.
\* The INSERT names no created_at, which the table declares NOT NULL with
\* no default of the server: a strict server raises and store_resume
\* re-raises, another one inserts the row under the value of the
\* AUTO_INCREMENT counter, which keeps its advance when the INSERT is
\* rolled back.  A write stays when the build commits each statement;
\* otherwise it is seen by the connection of the call only (wrote) and the
\* close of the connection rolls it back.
StoreWrite(w) ==
    /\ calls.live[w].pc = "selected"
    /\ LET call == calls.live[w]
           updated == [i \in DOMAIN resumes |->
                          IF i \in RowsOfPair(resumes, call.data)
                          THEN UpdatedRow(resumes[i], call.data)
                          ELSE resumes[i]]
           inserted == [i \in DOMAIN resumes \cup {calls.auto} |->
                           IF i = calls.auto THEN InsertedRow(i, call.data)
                           ELSE resumes[i]]
       IN  IF call.existing # 0
           THEN /\ resumes' = IF autocommit THEN updated ELSE resumes
                /\ calls' = [calls EXCEPT
                                !.live[w] = [call EXCEPT
                                                !.pc = "written",
                                                !.wrote = RowsOfPair(resumes, call.data),
                                                !.resume_id = call.existing]]
           ELSE IF calls.strict
                THEN LET done == [call EXCEPT !.pc = "done", !.raised = TRUE]
                     IN  /\ resumes' = resumes
                         /\ calls' = [calls EXCEPT !.live[w] = done, !.last = done]
                ELSE /\ resumes' = IF autocommit THEN inserted ELSE resumes
                     /\ calls' = [calls EXCEPT
                                     !.live[w] = [call EXCEPT !.pc = "inserted",
                                                              !.wrote = {calls.auto}],
                                     !.auto = @ + 1]
    /\ UNCHANGED <<response, pass, autocommit, bucket>>

\* after the INSERT: SELECT LAST_INSERT_ID(), the id the connection of the
\* call inserted last
StoreLastInsertId(w) ==
    /\ calls.live[w].pc = "inserted"
    /\ calls' = [calls EXCEPT
                    !.live[w].pc = "written",
                    !.live[w].resume_id = CHOOSE i \in calls.live[w].wrote : TRUE]
    /\ UNCHANGED <<resumes, response, pass, autocommit, bucket>>

\* the read-back: SELECT embedding ... WHERE id = :id.  It reads the table
\* as it is now, and the rows the call wrote when its write is not yet
\* committed; when it finds no row the call raises ValueError, else it
\* returns the id
StoreVerify(w) ==
    /\ calls.live[w].pc = "written"
    /\ LET call == calls.live[w]
           found == IF autocommit THEN call.resume_id \in DOMAIN resumes
                    ELSE call.resume_id \in call.wrote
           done == IF found THEN [call EXCEPT !.pc = "done"]
                   ELSE [call EXCEPT !.pc = "done", !.resume_id = 0,
                                     !.raised = TRUE]
       IN  calls' = [calls EXCEPT !.live[w] = done, !.last = done]
    /\ UNCHANGED <<resumes, response, pass, autocommit, bucket>>

\* the table the calls start on, on a server of either kind
InitStore ==
    /\ \E n \in 0..NumStoreSeed : resumes = SeedStore(n, 0, "none")
    /\ response = NoResponse
    /\ pass = Idle
    /\ autocommit \in BOOLEAN
    /\ \E strict \in BOOLEAN :
           calls = [NoCalls EXCEPT !.strict = strict, !.auto = Len(resumes) + 1]
    /\ bucket = EmptyBucket

NextStore ==
    \/ \E w \in Workers, data \in StoreInputs, embedderUp \in BOOLEAN :
           StoreSelect(w, data, embedderUp)
    \/ \E w \in Workers : StoreWrite(w)
    \/ \E w \in Workers : StoreLastInsertId(w)
    \/ \E w \in Workers : StoreVerify(w)
    \/ \E u \in Users : ClearIndex(u)
    \/ \E u \in Users \cup {""} : EngineClearIndex(u)

StoreSpec == InitStore /\ [][NextStore]_vars

(***************************************************************************)
(* POST /api/resume/upload/ (upload_resume) step by step, beside the read  *)
(* requests of other workers: the file goes to S3 under a fresh key, is    *)
(* read back, parsed and embedded, the row is added and committed by       *)
(* database.store_resume, and the response model is built from the row.    *)
(* Any exception lands in the handler that deletes the object of the key,  *)
(* ignoring a failure of the delete, and answers 500.  bucket.upload is    *)
(* the request in progress; between its steps the object may be in the     *)
(* bucket with no row yet, or the row committed with the object not yet    *)
(* deleted.                                                                *)
(***************************************************************************)
\* uploads of one run
MaxUploads == 2

\* the step of a request that raises ("none": no step is made to fail):
\* the token check, the checks of the file name, put_object, get_object,
\* parse_resume_text, encode, commit, refresh
UploadFailures ==
    {"none", "auth", "filename", "put", "get", "parse", "encode", "commit", "refresh"}

\* the order of the steps
StepNo(step) ==
    CASE step = "auth" -> 1 [] step = "filename" -> 2 [] step = "put" -> 3
      [] step = "get" -> 4 [] step = "parse" -> 5 [] step = "encode" -> 6
      [] step = "commit" -> 7 [] step = "refresh" -> 8 [] OTHER -> 9

\* what parse_resume_text returns: the fields of profile "A"; education is
\* parsed_data.get("education"), None when the parser found none
ParsedResumes ==
    {[name |-> <<"A">>, skills |-> <<TPython, TDjango>>, experience |-> TSixYears,
      education |-> education, contact |-> TPune, summary |-> TPythonDev] :
        education \in {TBSc, NULL}}

\* text_blob of the route: the summary, the skills joined with spaces, the
\* experience, the education and the contact values, joined with single
\* spaces, a part that is None or '' left out
TextBlob(result) ==
    Join(FilterNone(<<result.summary, Join(result.skills, <<" ">>),
                      result.experience, result.education, result.contact>>),
         <<" ">>)

\* the row database.store_resume adds
UploadedRow(id, user_id, key, result) ==
    [id |-> id, user_id |-> user_id, s3_location |-> S3At(key),
     name |-> result.name, skills |-> JList(result.skills),
     experience |-> result.experience, education |-> result.education,
     contact |-> JContact(result.contact), summary |-> result.summary,
     embedding |-> EmbVec(Encode(TextBlob(result))),
     certifications |-> JList(<<>>), work_history |-> JList(<<>>)]

\* ResumeUploadResponse(...) validates: education is declared str
ResponseModelRaises(row) == row.education = NULL

\* the request arrives: the token check and the checks of the file name,
\* then the key.  A check that raises sends the request to the handler of
\* the exception before there is a key, and it answers 500
UploadBegin(user_id, failing) ==
    /\ bucket.upload.pc = "idle"
    /\ bucket.keys < MaxUploads
    /\ IF failing # "none"
       THEN /\ response = NoResponse
            /\ response' = [op |-> "upload", user_id |-> user_id, key |-> 0,
                            failing |-> failing, deleteFails |-> FALSE,
                            status |-> 500]
            /\ bucket' = bucket
       ELSE /\ bucket' = [bucket EXCEPT
                             !.keys = @ + 1,
                             !.upload = [NoUpload EXCEPT !.pc = "put",
                                                         !.user_id = user_id,
                                                         !.key = bucket.keys + 1]]
            /\ response' = response
    /\ UNCHANGED <<resumes, pass, autocommit, calls>>

\* s3.put_object
UploadPut(fails) ==
    /\ bucket.upload.pc = "put"
    /\ bucket' = IF fails
                 THEN [bucket EXCEPT !.upload.pc = "cleanup",
                                     !.upload.failing = "put"]
                 ELSE [bucket EXCEPT !.objects = @ \cup {bucket.upload.key},
                                     !.upload.pc = "read"]
    /\ UNCHANGED <<resumes, response, pass, autocommit, calls>>

\* s3.get_object, parse_resume_text, text_blob and encode
UploadParse(result, failing) ==
    /\ bucket.upload.pc = "read"
    /\ bucket' = IF failing # "none"
                 THEN [bucket EXCEPT !.upload.pc = "cleanup",
                                     !.upload.failing = failing]
                 ELSE [bucket EXCEPT !.upload.pc = "store",
                                     !.upload.result = result]
    /\ UNCHANGED <<resumes, response, pass, autocommit, calls>>

\* database.store_resume: db.add and db.commit.  The row gets the value of
\* the AUTO_INCREMENT counter; a commit that raises has or has not used one
UploadCommit(fails, consumed) ==
    /\ bucket.upload.pc = "store"
    /\ IF fails
       THEN /\ resumes' = resumes
            /\ bucket' = [bucket EXCEPT !.upload.pc = "cleanup",
                                        !.upload.failing = "commit"]
            /\ calls' = IF consumed THEN [calls EXCEPT !.auto = @ + 1] ELSE calls
       ELSE /\ ~consumed
            /\ resumes' = [i \in DOMAIN resumes \cup {calls.auto} |->
                              IF i = calls.auto
                              THEN UploadedRow(i, bucket.upload.user_id,
                                       bucket.upload.key, bucket.upload.result)
                              ELSE resumes[i]]
            /\ bucket' = [bucket EXCEPT !.upload.pc = "refresh",
                                        !.upload.row_id = calls.auto]
            /\ calls' = [calls EXCEPT !.auto = @ + 1]
    /\ UNCHANGED <<response, pass, autocommit>>

\* db.refresh, then ResumeUploadResponse(...) and the answer
UploadRespond(fails) ==
    /\ bucket.upload.pc = "refresh"
    /\ IF fails
       THEN /\ bucket' = [bucket EXCEPT !.upload.pc = "cleanup",
                                        !.upload.failing = "refresh"]
            /\ response' = response
       ELSE IF ResponseModelRaises(resumes[bucket.upload.row_id])
            THEN /\ bucket' = [bucket EXCEPT !.upload.pc = "cleanup"]
                 /\ response' = response
            ELSE /\ response = NoResponse
                 /\ response' = [op |-> "upload", user_id |-> bucket.upload.user_id,
                                 key |-> bucket.upload.key, failing |-> "none",
                                 deleteFails |-> FALSE, status |-> 200]
                 /\ bucket' = [bucket EXCEPT !.upload = NoUpload]
    /\ UNCHANGED <<resumes, pass, autocommit, calls>>

\* the handler of the exception: delete_object, whose failure is ignored,
\* and the answer 500
UploadCleanup(deleteFails) ==
    /\ bucket.upload.pc = "cleanup"
    /\ response = NoResponse
    /\ response' = [op |-> "upload", user_id |-> bucket.upload.user_id,
                    key |-> bucket.upload.key, failing |-> bucket.upload.failing,
                    deleteFails |-> deleteFails, status |-> 500]
    /\ bucket' = [bucket EXCEPT
                     !.objects = IF deleteFails THEN @ ELSE @ \ {bucket.upload.key},
                     !.upload = NoUpload]
    /\ UNCHANGED <<resumes, pass, autocommit, calls>>

InitUpload ==
    /\ \E n \in 0..NumStoreSeed : resumes = SeedStore(n, 0, "none")
    /\ response = NoResponse
    /\ pass = Idle
    /\ autocommit \in BOOLEAN
    /\ calls = [NoCalls EXCEPT !.auto = Len(resumes) + 1]
    /\ bucket = EmptyBucket

\* resume ids a read request may name beside an upload
UploadRequestIds == 0..(NumStoreSeed + MaxUploads)

NextUpload ==
    \/ \E u \in Users, failing \in {f \in UploadFailures : f = "none" \/ StepNo(f) < 3} :
           UploadBegin(u, failing)
    \/ \E fails \in BOOLEAN : UploadPut(fails)
    \/ \E result \in ParsedResumes,
          failing \in {f \in UploadFailures : f = "none" \/ StepNo(f) \in 4..6} :
           UploadParse(result, failing)
    \/ \E fails \in BOOLEAN, consumed \in BOOLEAN : UploadCommit(fails, consumed)
    \/ \E fails \in BOOLEAN : UploadRespond(fails)
    \/ \E deleteFails \in BOOLEAN : UploadCleanup(deleteFails)
    \/ \E u \in Users, i \in UploadRequestIds : GetResumeDetails(u, i)
    \/ \E u \in Users : GetAllResumes(u)
    \/ Reply

UploadSpec == InitUpload /\ [][NextUpload]_vars

(***************************************************************************)
(* The scoring of one candidate over a wider range of rows and filters:    *)
(* the table holds one row of user "u1", any profile of the catalog with   *)
(* any of the experience descriptions, contacts and stored vectors below,  *)
(* and "u1" searches it.  The loop body of search treats each row on its   *)
(* own, so one row shows every case of the steps.                          *)
(***************************************************************************)
\* the experience column: absent, empty, without a leading number, or with
ExperienceTexts == {NULL, NoText, TSenior, TOneYear, TThreeYears, TSixYears}

\* the contact column: absent, without a location, or with one
ContactValues == {JNull, JContact(NoText), JContact(TPune), JContact(TMumbai)}

\* the stored vector: along the query, oblique, opposite, or all zeros
VectorValues == {<<1, 0>>, <<4, 3>>, <<-4, -3>>, <<0, 0>>}

\* experience_years of the request (0: no filter)
ScoringFilters == {0, 5, 6}

ScoringRow(p, experience, contact, vec) ==
    [SeedRow(p) EXCEPT !.id = 1, !.user_id = "u1", !.experience = experience,
                       !.contact = contact, !.embedding = EmbVec(vec)]

InitScoring ==
    /\ \E p \in DOMAIN Catalog, experience \in ExperienceTexts,
          contact \in ContactValues, vec \in VectorValues :
           resumes = [i \in {1} |-> ScoringRow(p, experience, contact, vec)]
    /\ response = NoResponse
    /\ pass = Idle
    /\ autocommit \in BOOLEAN
    /\ calls = NoCalls
    /\ bucket = EmptyBucket

NextScoring ==
    \/ \E q \in Queries, l \in Locations, e \in ScoringFilters :
           Search("u1", q, l, e, "up", TRUE)
    \/ Reply

ScoringSpec == InitScoring /\ [][NextScoring]_vars

(***************************************************************************)
(* Properties.  A response of SearchEngine.search is read together with    *)
(* the store it was computed on: search does not change the store and no   *)
(* other request is handled before Reply.                                  *)
(***************************************************************************)
IsSearch == response.op = "search"

\* the rows of the tenant of the request
TenantRows == {resumes[i] : i \in {j \in DOMAIN resumes :
                                       resumes[j].user_id = response.user_id}}

\* the row has a stored vector of the length of the query vector
Indexed(row) ==
    /\ row.embedding.kind = "vec"
    /\ Len(row.embedding.vec) = Len(Encode(response.query))

\* the unclamped final score of an indexed row under the request
Unclamped(row) ==
    FinalSimilarity(row, response.query, response.location, response.experience_years)

\* the candidates of the tenant whose unclamped score is above 0.3
Survivors == {row \in {r \in TenantRows : Indexed(r)} :
                  ~Unclamped(row).nan /\ 10 * Unclamped(row).v > 3 * SCALE}

MatchIds == {response.result.matches[i].id : i \in 1..Len(response.result.matches)}

MinOf(a, b) == IF a < b THEN a ELSE b

\* C1: every call of search returns at most 5 matches.
C1_AtMostFive ==
    IsSearch => Len(response.result.matches) <= 5

\* C1 witness: six candidates survive the threshold and five are returned.
C1_Witness ==
    /\ IsSearch
    /\ Cardinality(Survivors) > 5
    /\ Len(response.result.matches) = 5

\* C2: every similarity_score exposed by search lies in [0.0, 1.0].
C2_ScoreInUnitInterval ==
    IsSearch =>
        \A i \in 1..Len(response.result.matches) :
            /\ response.result.matches[i].similarity_score >= 0
            /\ response.result.matches[i].similarity_score <= SCALE

\* C2 witness: a returned match whose unclamped score is above 1 is exposed
\* with 1.0, while a candidate of the same search has a negative score.
C2_Witness ==
    /\ IsSearch
    /\ \E i \in 1..Len(response.result.matches) :
           /\ Unclamped(resumes[response.result.matches[i].id]).v > SCALE
           /\ response.result.matches[i].similarity_score = SCALE
    /\ \E row \in TenantRows : Indexed(row) /\ Unclamped(row).v < 0

\* no whitespace-delimited lowercase keyword of the query is a substring of
\* the texts of the row that search matches against
NoKeywordOverlap(row) ==
    \A k \in 1..Len(Split(Lower(response.query))) :
        LET kw == Split(Lower(response.query))[k]
        IN  /\ ~IsSubstring(kw, Lower(TextOrEmpty(row.education)))
            /\ ~IsSubstring(kw, Lower(TextOrEmpty(row.summary)))
            /\ \A i \in 1..Len(SkillsList(row)) :
                   ~IsSubstring(kw, Lower(SkillsList(row)[i]))

\* C3 (as claimed): a candidate with no keyword overlap has score exactly
\* 0.0 and is never in matches, with or without a location or experience
\* filter.  Read on searches with a non-empty query text.
C3_NoOverlapNeverReturned ==
    (IsSearch /\ response.query # NoText) =>
        \A i \in 1..Len(response.result.scored) :
            NoKeywordOverlap(resumes[response.result.scored[i].id]) =>
                /\ response.result.scored[i].similarity = Num(0)
                /\ response.result.scored[i].id \notin MatchIds

\* C4: every returned candidate has an unclamped final score strictly above
\* 0.3; a candidate at or below 0.3 is never returned.
C4_ReturnedAboveThreshold ==
    IsSearch =>
        \A id \in MatchIds :
            /\ Indexed(resumes[id])
            /\ ~Unclamped(resumes[id]).nan
            /\ 10 * Unclamped(resumes[id]).v > 3 * SCALE

\* C4 witness: fewer than five matches are returned although a candidate
\* with a positive score of at most 0.3 was left.
C4_Witness ==
    /\ IsSearch
    /\ Len(response.result.matches) \in 1..4
    /\ \E row \in TenantRows :
           /\ Indexed(row)
           /\ Unclamped(row).v > 0
           /\ 10 * Unclamped(row).v <= 3 * SCALE
           /\ row.id \notin MatchIds

\* C5 (as claimed): the matches are exactly the (up to) five surviving
\* candidates with the highest unclamped scores, in non-increasing order.
C5_TopFiveOfSurvivors ==
    (IsSearch /\ response.embedder = "up") =>
        /\ Len(response.result.matches) = MinOf(5, Cardinality(Survivors))
        /\ \A id \in MatchIds : resumes[id] \in Survivors
        /\ \A row \in Survivors :
               row.id \notin MatchIds =>
                   \A id \in MatchIds : Unclamped(row).v <= Unclamped(resumes[id]).v
        /\ \A i \in 1..(Len(response.result.matches) - 1) :
               response.result.matches[i].similarity_score
                   >= response.result.matches[i + 1].similarity_score

\* C6 (as claimed): of two returned matches with equal similarity_score the
\* one with the smaller id comes first.
C6_TiesByIdAscending ==
    IsSearch =>
        \A i, j \in 1..Len(response.result.matches) :
            (i < j /\ response.result.matches[i].similarity_score
                          = response.result.matches[j].similarity_score)
                => response.result.matches[i].id < response.result.matches[j].id

\* C6 (amended): the matches are in strictly decreasing order of the pair
\* (unclamped score, id): of two matches with equal unclamped score the one
\* with the larger id comes first.
C6_TiesByIdDescending ==
    IsSearch =>
        \A i, j \in 1..Len(response.result.matches) :
            i < j =>
                LET a == response.result.matches[i].id
                    b == response.result.matches[j].id
                IN  \/ Unclamped(resumes[a]).v > Unclamped(resumes[b]).v
                    \/ /\ Unclamped(resumes[a]).v = Unclamped(resumes[b]).v
                       /\ a > b

\* C6 witness: two returned matches have the same unclamped score.
C6_Witness ==
    /\ IsSearch
    /\ \E i, j \in 1..Len(response.result.matches) :
           /\ i < j
           /\ Unclamped(resumes[response.result.matches[i].id])
                  = Unclamped(resumes[response.result.matches[j].id])

\* the store without the rows of other tenants
OwnStore == [i \in {j \in DOMAIN resumes : resumes[j].user_id = response.user_id}
                 |-> resumes[i]]

\* C7: every candidate search scores or returns belongs to the tenant of the
\* query, and the result is the one the tenant's rows alone give.
C7_TenantScoped ==
    IsSearch =>
        /\ \A i \in 1..Len(response.result.scored) :
               resumes[response.result.scored[i].id].user_id = response.user_id
        /\ \A id \in MatchIds : resumes[id].user_id = response.user_id
        /\ response.result =
               SearchResult(OwnStore, response.user_id, response.query,
                   response.location, response.experience_years,
                   response.embedder, response.narratorUp)

\* C7 witness: a search returns matches while the store holds a row of
\* another tenant that the same query would rank.
C7_Witness ==
    /\ IsSearch
    /\ response.result.matches # <<>>
    /\ \E i \in DOMAIN resumes :
           /\ resumes[i].user_id # response.user_id
           /\ Indexed(resumes[i])
           /\ Unclamped(resumes[i]).v > Threshold

\* the operations of the resume router, whose handlers return the rows of
\* services/database.py as they are
ResumeRouterOps == {"get_resume_by_id", "list_resumes", "search_resumes_by_query"}

\* C8: no query operation issued on behalf of one tenant returns a record
\* owned by another tenant: not search, not semantic_search, not a read
\* route of the search router, and not a handler of the resume router.
C8_NoForeignRecord ==
    /\ IsSearch => \A id \in MatchIds : resumes[id].user_id = response.user_id
    /\ response.op \in {"semantic_search", "get_all_resumes", "get_resume",
                        "get_resume_details"} =>
           \A i \in 1..Len(response.rows) :
               response.rows[i].user_id = response.user_id
    /\ response.op \in ResumeRouterOps =>
           \A i \in 1..Len(response.returned) :
               response.returned[i].user_id = response.user_id

\* C8, the part that holds: no response that reaches the client carries a
\* record of another tenant (the resume router answers 500 instead).
C8_NoForeignRecordServed ==
    /\ IsSearch => \A id \in MatchIds : resumes[id].user_id = response.user_id
    /\ response.op \in {"semantic_search", "get_all_resumes", "get_resume",
                        "get_resume_details"} \cup ResumeRouterOps =>
           \A i \in 1..Len(response.rows) :
               response.rows[i].user_id = response.user_id

\* a handler of the resume router returned a record of another tenant and
\* the validation of the response refused it
C8_ForeignRecordRefused ==
    /\ response.op \in ResumeRouterOps
    /\ \E i \in 1..Len(response.returned) :
           response.returned[i].user_id # response.user_id
    /\ response.status = 500
    /\ response.rows = <<>>

\* the loop of search went through every row of the tenant: no stored
\* vector has a length other than the query vector's
RankingCompleted ==
    \A row \in TenantRows : row.embedding.kind = "vec" => Indexed(row)

\* C9 (as claimed): when the ranking produced a non-empty top list and the
\* Narrator did not deliver its analysis (it failed, or preparing its input
\* failed), search returns all the computed matches with the fallback text.
C9_NarratorFailureKeepsMatches ==
    (/\ IsSearch
     /\ response.embedder = "up"
     /\ RankingCompleted
     /\ Survivors # {}
     /\ response.result.analysis # AnalysisNarrated) =>
        /\ response.result.analysis = AnalysisFallback
        /\ Len(response.result.matches) = MinOf(5, Cardinality(Survivors))
        /\ \A id \in MatchIds : resumes[id] \in Survivors

\* C10 (as claimed): a candidate whose stored vector has another length
\* than the query vector is skipped, and search still scores every other
\* candidate of the tenant and returns the best of them.
C10_BadVectorSkipped ==
    (/\ IsSearch
     /\ response.embedder = "up"
     /\ ~RankingCompleted) =>
        /\ \A row \in TenantRows :
               Indexed(row) =>
                   \E i \in 1..Len(response.result.scored) :
                       response.result.scored[i].id = row.id
        /\ Len(response.result.matches) = MinOf(5, Cardinality(Survivors))

\* C11 (as claimed): a search whose query text is empty is answered with a
\* reported failure, not with an ordinary search response.
C11_EmptyQueryRejected ==
    (IsSearch /\ response.query = NoText) =>
        /\ response.result.matches = <<>>
        /\ response.result.analysis = AnalysisSearchError

\* C12 (as claimed): when the tenant has no candidate record at all, search
\* returns no matches and exactly the text "No resumes found in your
\* database.", whatever the state of the Embedder and of the Narrator.  Read
\* on searches with a non-empty query text.
C12_NoCandidatesMessage ==
    (IsSearch /\ response.query # NoText /\ TenantRows = {}) =>
        /\ response.result.matches = <<>>
        /\ response.result.analysis = AnalysisNoResumes

\* C13 (as claimed): when the tenant has at least one candidate record and
\* none survives scoring and threshold (all unindexed included), search
\* returns no matches and exactly the text "No matching resumes found for
\* your search criteria.".  Read on searches with a non-empty query text
\* whose Embedder answers and whose stored vectors all have the length of
\* the query vector.
C13_NoSurvivorMessage ==
    (/\ IsSearch
     /\ response.query # NoText
     /\ response.embedder = "up"
     /\ RankingCompleted
     /\ TenantRows # {}
     /\ Survivors = {}) =>
        /\ response.result.matches = <<>>
        /\ response.result.analysis = AnalysisNoMatches

\* the Embedder raised during the search: on the query text, or on the
\* location strings of a row the loop reached
EmbedderFailed ==
    \/ response.embedder = "down"
    \/ /\ response.embedder = "downAfterQuery"
       /\ RankingCompleted
       /\ \E row \in TenantRows :
              /\ row.embedding.kind \notin {"null", "empty"}
              /\ EncodesLocation(row, response.location)

\* C14: when the Embedder fails during search, on the query text or on a
\* location string, search still returns: with no matches and with the text
\* that reports the error.
C14_EmbedderFailureReported ==
    (IsSearch /\ EmbedderFailed) =>
        /\ response.result.matches = <<>>
        /\ response.result.analysis = AnalysisSearchError

\* C14 witness: the Embedder answered for the query and failed on a location
\* string, in a search that has candidates above the threshold.
C14_Witness ==
    /\ IsSearch
    /\ response.embedder = "downAfterQuery"
    /\ EmbedderFailed
    /\ Survivors # {}
    /\ response.result.matches = <<>>
    /\ response.result.analysis = AnalysisSearchError

ScoredIds == {response.result.scored[i].id : i \in 1..Len(response.result.scored)}

\* C15: a candidate without a stored vector when search reads the store is
\* neither scored nor returned, whatever its keywords, location, experience.
C15_UnindexedExcluded ==
    IsSearch =>
        \A row \in TenantRows :
            row.embedding.kind # "vec" =>
                /\ row.id \notin ScoredIds
                /\ row.id \notin MatchIds

\* C15 witness: a search returns matches while a record of the tenant whose
\* keywords match the query has an empty vector column and is left out.
C15_Witness ==
    /\ IsSearch
    /\ response.result.matches # <<>>
    /\ \E row \in TenantRows :
           /\ row.embedding.kind = "empty"
           /\ ~NoKeywordOverlap(row)
           /\ row.id \notin ScoredIds
           /\ row.id \notin MatchIds

\* the whitespace-delimited lowercase tokens of the query of the request
QueryTokens == Split(Lower(response.query))

\* how many query tokens occur as a substring of one of the texts
TokensIn(texts) ==
    Cardinality({k \in 1..Len(QueryTokens) :
                     \E t \in texts : IsSubstring(QueryTokens[k], Lower(t))})

SkillTexts(row) == {SkillsList(row)[i] : i \in 1..Len(SkillsList(row))}

\* the texts of a candidate that search matches keywords against
MatchedTexts(row) ==
    SkillTexts(row) \cup {TextOrEmpty(row.summary), TextOrEmpty(row.education)}

\* C19: with at least one matching keyword and neither a location nor an
\* experience filter, the unclamped score is the cosine similarity of the
\* query vector and the candidate vector plus 0.1 for each matching token
\* (for a candidate vector whose cosine is defined).
C19_ScoreIsCosinePlusMatches ==
    (IsSearch /\ response.location = NoText /\ response.experience_years = 0) =>
        \A i \in 1..Len(response.result.scored) :
            LET row  == resumes[response.result.scored[i].id]
                base == Cosine(Encode(response.query), row.embedding.vec)
            IN  (TokensIn(MatchedTexts(row)) > 0 /\ ~base.nan) =>
                    /\ ~response.result.scored[i].similarity.nan
                    /\ 10 * response.result.scored[i].similarity.v
                           = 10 * base.v + TokensIn(MatchedTexts(row)) * SCALE

\* C19 witness: a candidate with cosine 0.6 and one matching token is scored
\* 0.7.
C19_Witness ==
    /\ IsSearch
    /\ response.location = NoText
    /\ response.experience_years = 0
    /\ \E i \in 1..Len(response.result.scored) :
           LET row == resumes[response.result.scored[i].id]
           IN  /\ TokensIn(MatchedTexts(row)) = 1
               /\ 10 * Cosine(Encode(response.query), row.embedding.vec).v = 6 * SCALE
               /\ 10 * response.result.scored[i].similarity.v = 7 * SCALE

\* C20 (as claimed): the keyword match count is the number of query keywords
\* that are a substring of the skills or of the summary of the candidate;
\* no other field, such as education, contributes.
C20_OnlySkillsAndSummary ==
    IsSearch =>
        \A i \in 1..Len(response.result.scored) :
            LET row == resumes[response.result.scored[i].id]
            IN  response.result.scored[i].keyword_matches
                    = TokensIn(SkillTexts(row) \cup {TextOrEmpty(row.summary)})

\* C20 (amended): the keyword match count is the number of query keywords
\* that are a substring of a skill, of the summary or of the education of
\* the candidate; name, experience and location never contribute.
C20_SkillsSummaryEducation ==
    IsSearch =>
        \A i \in 1..Len(response.result.scored) :
            response.result.scored[i].keyword_matches
                = TokensIn(MatchedTexts(resumes[response.result.scored[i].id]))

\* C20 witness: a scored candidate owes its only match to its education,
\* while another keyword of the query occurs in its name and is not counted.
C20_Witness ==
    /\ IsSearch
    /\ \E i \in 1..Len(response.result.scored) :
           LET row == resumes[response.result.scored[i].id]
           IN  /\ response.result.scored[i].keyword_matches = 1
               /\ TokensIn(SkillTexts(row) \cup {TextOrEmpty(row.summary)}) = 0
               /\ TokensIn({TextOrEmpty(row.education)}) = 1
               /\ TokensIn({row.name, TextOrEmpty(row.education)}) = 2

(***************************************************************************)
(* Properties of the backfill pass (BackfillSpec).                         *)
(***************************************************************************)
\* a store in which the rows of S have got their regenerated vector
Filled(store, S) ==
    [i \in DOMAIN store |->
        IF i \in S THEN [store[i] EXCEPT !.embedding = Regenerate(store[i])]
        ELSE store[i]]

\* the rows the running pass has given a vector so far
FilledByPass ==
    {i \in DOMAIN resumes : resumes[i].embedding # pass.before[i].embedding}

\* verify_database is running
PassRunning == pass.pc \in {"fix", "encode"}

\* the store the pass started on, without the rows deleted since
BeforeStill == [i \in DOMAIN resumes |-> pass.before[i]]

\* C16: a search that reads the store while a backfill pass is running
\* completes without error, and its result is the result of the same search
\* on the store the pass started on (less the rows deleted since) with the
\* regenerated vector filled in for some of the rows that lacked one.
C16_SearchDuringBackfill ==
    [][(PassRunning /\ response.op = "none" /\ response'.op = "search") =>
           /\ response'.result.analysis # AnalysisSearchError
           /\ \E S \in SUBSET MissingEmbeddings(BeforeStill) :
                  response'.result =
                      SearchResult(Filled(BeforeStill, S), response'.user_id,
                          response'.query, response'.location,
                          response'.experience_years, response'.embedder,
                          response'.narratorUp)]_vars

\* C16 witness: a search answered during a pass returns a candidate the
\* pass has just indexed while another record of the tenant still waits for
\* its vector and is not returned.
C16_Witness ==
    /\ IsSearch
    /\ PassRunning
    /\ \E i \in FilledByPass : i \in MatchIds /\ resumes[i].user_id = response.user_id
    /\ \E k \in 1..Len(pass.pending) :
           /\ pass.pending[k] \in DOMAIN resumes
           /\ resumes[pass.pending[k]].user_id = response.user_id
           /\ pass.pending[k] \notin MatchIds

\* a step of the request in progress (only its steps change pass)
PassStep == pass' # pass

\* what a pass may have done to a row: nothing, or given a vector to a row
\* that had none, all other fields kept
OnlyMissingVectorSet(old, new) ==
    \/ new = old
    \/ /\ old.embedding.kind \in {"null", "empty"}
       /\ new.embedding.kind = "vec"
       /\ new = [old EXCEPT !.embedding = new.embedding]

C17_BackfillIdempotent ==
    [][PassStep =>
           /\ DOMAIN resumes' = DOMAIN resumes
           /\ \A i \in DOMAIN resumes : OnlyMissingVectorSet(resumes[i], resumes'[i])
           /\ (pass'.run = 2 /\ ~pass'.prevFailed) => resumes' = resumes]_vars

\* the second pass has ended after a first pass in which an encode raised,
\* and a record the first pass left without vector has one now
C17_RetriedOnSecondPass ==
    /\ pass.run = 2
    /\ pass.pc = "search"
    /\ pass.prevFailed
    /\ \E i \in DOMAIN resumes :
           /\ pass.before[i].embedding.kind \in {"null", "empty"}
           /\ resumes[i].embedding.kind = "vec"

\* C18 (as claimed): a backfill pass started for a tenant reads and writes
\* only records of that tenant: the rows it has selected are rows of the
\* tenant and no step of it changes a record of another tenant.
C18_BackfillTenantScoped ==
    /\ PassRunning =>
           \A k \in 1..Len(pass.pending) :
               pass.before[pass.pending[k]].user_id = pass.user_id
    /\ pass.pc = "search" =>
           \A i \in DOMAIN resumes :
               resumes[i].user_id # pass.user_id => resumes[i] = pass.before[i]

(***************************************************************************)
(* The steps of the scoring, read on the rows a search scored.             *)
(***************************************************************************)
\* the entries of the rows the loop of the search gave a similarity
ScoredEntries == {response.result.scored[i] : i \in 1..Len(response.result.scored)}

\* the running similarity of a scored row after each step
StepsOf(e) ==
    ScoreSteps(resumes[e.id], response.query, response.location,
               response.experience_years)

\* the location string of a row ('' when the contact has none)
RowLocation(row) == IF row.contact.null THEN NoText ELSE row.contact.val

\* max(0.0, min(a, 1.0)) of an affinity in millionths
ClampedAffinity(a) == IF a < 0 THEN 0 ELSE IF a > SCALE THEN SCALE ELSE a

\* C21: for a request with a location and a candidate with a location, the
\* location step adds ten times the clamped affinity when it is above 0.7,
\* multiplies the running score by 0.7 when it is below 0.3, and leaves the
\* score alone in between; for a request without a location the step
\* leaves the score alone.  Without an experience filter the score after
\* the location step is the score of the row.
C21_LocationStep ==
    IsSearch =>
        \A e \in ScoredEntries :
            LET st == StepsOf(e)
                c  == ClampedAffinity(st.affinity.v)
            IN  ~st.kw.nan =>
                  /\ response.experience_years = 0 => e.similarity = st.loc
                  /\ response.location = NoText => st.loc = st.kw
                  /\ (response.location # NoText
                        /\ RowLocation(resumes[e.id]) # NoText) =>
                        /\ ~st.loc.nan
                        /\ 10 * c > 7 * SCALE => st.loc.v = st.kw.v + 10 * c
                        /\ 10 * c < 3 * SCALE => 10 * st.loc.v = 7 * st.kw.v
                        /\ (10 * c >= 3 * SCALE /\ 10 * c <= 7 * SCALE) =>
                               st.loc.v = st.kw.v

\* a candidate with a location and a positive running score was scored
\* under a location filter its location has an affinity below 0.3 with
C21_Witness ==
    /\ IsSearch
    /\ response.location # NoText
    /\ \E e \in ScoredEntries :
           /\ RowLocation(resumes[e.id]) # NoText
           /\ StepsOf(e).kw.v > 0
           /\ 10 * StepsOf(e).affinity.v < 3 * SCALE
           /\ StepsOf(e).loc.v < StepsOf(e).kw.v

\* ... in the band between 0.3 and 0.7
C21_WitnessBand ==
    /\ IsSearch
    /\ response.location # NoText
    /\ \E e \in ScoredEntries :
           /\ RowLocation(resumes[e.id]) # NoText
           /\ StepsOf(e).kw.v > 0
           /\ 10 * StepsOf(e).affinity.v > 3 * SCALE
           /\ 10 * StepsOf(e).affinity.v < 7 * SCALE

\* ... above 0.7 and below 1.0
C21_WitnessBoost ==
    /\ IsSearch
    /\ response.location # NoText
    /\ \E e \in ScoredEntries :
           /\ RowLocation(resumes[e.id]) # NoText
           /\ 10 * StepsOf(e).affinity.v > 7 * SCALE
           /\ StepsOf(e).affinity.v < SCALE
           /\ StepsOf(e).loc.v = StepsOf(e).kw.v + 10 * StepsOf(e).affinity.v

\* C22: for a request with a location, a candidate without a location
\* string has the affinity 0.3, and its positive running score is strictly
\* lower, and not zero, after the location step.
C22_NoLocationPenalised ==
    (IsSearch /\ response.location # NoText) =>
        \A e \in ScoredEntries :
            RowLocation(resumes[e.id]) = NoText =>
                /\ 10 * StepsOf(e).affinity.v = 3 * SCALE
                /\ (~StepsOf(e).kw.nan /\ StepsOf(e).kw.v > 0) =>
                       /\ StepsOf(e).loc.v < StepsOf(e).kw.v
                       /\ StepsOf(e).loc.v > 0

\* the years an experience description starts with (-1: none)
YearsOf(experience) ==
    CASE experience = TOneYear    -> 1
      [] experience = TThreeYears -> 3
      [] experience = TSixYears   -> 6
      [] OTHER                    -> -1

\* max(0.05, 0.4 ** shortfall) as a fraction: 0.4, 0.16, 0.064, then 0.05
PenaltyNum(shortfall) ==
    CASE shortfall = 1 -> 2 [] shortfall = 2 -> 4 [] shortfall = 3 -> 8 [] OTHER -> 1

PenaltyDen(shortfall) ==
    CASE shortfall = 1 -> 5 [] shortfall = 2 -> 25 [] shortfall = 3 -> 125 [] OTHER -> 20

\* C23: for a request with a minimum experience, a candidate whose
\* description starts with fewer years has its running score multiplied by
\* max(0.05, 0.4^shortfall), which is 0.16 for a shortfall of 2 and 0.05
\* from a shortfall of 4 on; a candidate with at least the requested years
\* keeps its score.  The result of the step is the score of the row.
C23_ShortfallPenalty ==
    (IsSearch /\ response.experience_years # 0) =>
        \A e \in ScoredEntries :
            LET st == StepsOf(e)
                years == YearsOf(resumes[e.id].experience)
                shortfall == response.experience_years - years
            IN  (years >= 0 /\ ~st.loc.nan) =>
                  /\ e.similarity = st.final
                  /\ ~st.final.nan
                  /\ IF shortfall > 0
                     THEN st.final.v =
                            (st.loc.v * PenaltyNum(shortfall)) \div PenaltyDen(shortfall)
                     ELSE st.final.v = st.loc.v

\* a candidate with a positive running score was four or more years short
\* and kept a twentieth of its score
C23_Witness ==
    /\ IsSearch
    /\ response.experience_years # 0
    /\ \E e \in ScoredEntries :
           /\ YearsOf(resumes[e.id].experience) >= 0
           /\ response.experience_years - YearsOf(resumes[e.id].experience) >= 4
           /\ StepsOf(e).loc.v > 0
           /\ 20 * e.similarity.v = StepsOf(e).loc.v

\* ... two years short, keeping 0.16 of its score
C23_WitnessTwoShort ==
    /\ IsSearch
    /\ \E e \in ScoredEntries :
           /\ YearsOf(resumes[e.id].experience) >= 0
           /\ response.experience_years - YearsOf(resumes[e.id].experience) = 2
           /\ StepsOf(e).loc.v > 0
           /\ 25 * e.similarity.v = 4 * StepsOf(e).loc.v

\* ... with exactly the years requested, keeping its score
C23_WitnessEnough ==
    /\ IsSearch
    /\ response.experience_years # 0
    /\ \E e \in ScoredEntries :
           /\ YearsOf(resumes[e.id].experience) = response.experience_years
           /\ StepsOf(e).loc.v > 0
           /\ e.similarity = StepsOf(e).loc

\* C24: for a request with a minimum experience, a candidate whose
\* experience description yields no number of years (no leading number,
\* empty, or absent) has its running score multiplied by 0.4.
C24_UnparsedPenalised ==
    (IsSearch /\ response.experience_years # 0) =>
        \A e \in ScoredEntries :
            (YearsOf(resumes[e.id].experience) = -1 /\ ~StepsOf(e).loc.nan) =>
                /\ e.similarity = StepsOf(e).final
                /\ 10 * StepsOf(e).final.v = 4 * StepsOf(e).loc.v

\* the part of C24 about descriptions that are present and not empty
C24_NonNumericPenalised ==
    (IsSearch /\ response.experience_years # 0) =>
        \A e \in ScoredEntries :
            (resumes[e.id].experience = TSenior /\ ~StepsOf(e).loc.nan) =>
                /\ e.similarity = StepsOf(e).final
                /\ 10 * StepsOf(e).final.v = 4 * StepsOf(e).loc.v

\* the score the keyword, location and experience steps of the request
\* give a row from a base similarity of 0.0
FromBaseZero(row) ==
    LET kw  == ApplyKeywords(Num(0), KeywordMatches(row, response.query))
        loc == IF response.location # NoText
               THEN ApplyLocation(kw, LocationSimilarity(row, response.location))
               ELSE kw
    IN  ApplyExperience(loc, row, response.experience_years)

\* C25: a candidate whose stored vector has zero norm gets the base
\* similarity 0.0, a number, and from there the score every candidate with
\* base similarity 0.0 gets from the keyword, location and experience steps.
C25_ZeroNormIsZero ==
    IsSearch =>
        \A e \in ScoredEntries :
            Norm(resumes[e.id].embedding.vec) = 0 =>
                /\ StepsOf(e).base = Num(0)
                /\ e.similarity = FromBaseZero(resumes[e.id])

\* the second half of C25 alone: the score of the row
C25_ZeroNormScoredFromZero ==
    IsSearch =>
        \A e \in ScoredEntries :
            Norm(resumes[e.id].embedding.vec) = 0 =>
                e.similarity = FromBaseZero(resumes[e.id])

\* the experience step of the request leaves the score of the row alone
NoExperiencePenalty(row) ==
    \/ response.experience_years = 0
    \/ row.experience \in {NULL, NoText}
    \/ YearsOf(row.experience) >= response.experience_years

\* the clamped affinity of the row with the location of the request is
\* above 0.7
StrongAffinity(row) ==
    /\ response.location # NoText
    /\ ~LocationSimilarity(row, response.location).nan
    /\ 10 * ClampedAffinity(LocationSimilarity(row, response.location).v) > 7 * SCALE

\* the row is among the matches, with the score 1.0
ExposedAtOne(row) ==
    \E i \in 1..Len(response.result.matches) :
        /\ response.result.matches[i].id = row.id
        /\ response.result.matches[i].similarity_score = SCALE

\* C26: in a search with a location, every indexed candidate of the tenant
\* whose clamped affinity is above 0.7 and whose score the experience step
\* leaves alone has an unclamped score above 1 and is returned with the
\* score 1.0, whatever its base similarity and keyword matches.
C26_StrongAffinityExposedAtOne ==
    IsSearch =>
        \A row \in TenantRows :
            (Indexed(row) /\ StrongAffinity(row) /\ NoExperiencePenalty(row)) =>
                /\ Greater(Unclamped(row), SCALE)
                /\ ExposedAtOne(row)

\* C26 for the candidates whose stored vector is not all zeros
C26_NonZeroVectorExposedAtOne ==
    IsSearch =>
        \A row \in TenantRows :
            (Indexed(row) /\ StrongAffinity(row) /\ NoExperiencePenalty(row)
               /\ Norm(row.embedding.vec) # 0) =>
                /\ Greater(Unclamped(row), SCALE)
                /\ ExposedAtOne(row)

(***************************************************************************)
(* SearchEngine.store_resume.                                              *)
(***************************************************************************)
\* two rows hold the same (name, user_id)
DuplicatePair ==
    \E i, j \in DOMAIN resumes :
        /\ i # j
        /\ resumes[i].name = resumes[j].name
        /\ resumes[i].user_id = resumes[j].user_id

\* worker w makes the UPDATE of a call whose pair is stored
UpdatesStored(w) ==
    /\ calls.live[w].pc = "selected"
    /\ calls'.live[w].pc = "written"
    /\ calls.live[w].existing \in DOMAIN resumes

\* the call of worker w, whose pair is stored, ends
EndsOnStored(w) ==
    /\ calls.live[w].pc = "written"
    /\ calls'.live[w].pc = "done"
    /\ calls.live[w].existing \in DOMAIN resumes

\* the row the call found carries the data of the call after its UPDATE
UpdatedInPlace(w) ==
    resumes'[calls.live[w].existing] =
        UpdatedRow(resumes[calls.live[w].existing], calls.live[w].data)

\* C27: after any interleaving of calls of store_resume the table holds at
\* most one row per (name, user_id); the UPDATE of a call whose pair is
\* stored leaves the stored row with the data of the call, and the call
\* returns the id of that row.
C27_OneRecordPerPair ==
    [][/\ ~DuplicatePair'
       /\ \A w \in Workers :
              /\ UpdatesStored(w) => UpdatedInPlace(w)
              /\ EndsOnStored(w) =>
                     /\ ~calls'.live[w].raised
                     /\ calls'.live[w].resume_id = calls.live[w].existing]_vars

\* the first half of C27 alone
C27_NoDuplicatePair == ~DuplicatePair

\* the second half of C27 alone
C27_UpdatedInPlace ==
    [][\A w \in Workers : UpdatesStored(w) => UpdatedInPlace(w)]_vars

\* a call raised at its read-back after a write that went through: the
\* row it wrote was deleted before the read
C27_RaisedAfterWrite ==
    /\ calls.last.pc = "done"
    /\ calls.last.raised
    /\ calls.last.wrote # {}

(***************************************************************************)
(* upload_resume.                                                          *)
(***************************************************************************)
\* a row refers to the object of the key
RowRefers(key) == \E i \in DOMAIN resumes : resumes[i].s3_location = S3At(key)

\* the last request was an upload that got as far as put_object and past it
UploadPastPut ==
    /\ response.op = "upload"
    /\ StepNo(response.failing) > 3

\* C28: when upload_resume has finished, with success or with an error at
\* a step after the put, the object it uploaded exists if and only if a
\* row refers to it.
C28_ObjectIffRow ==
    UploadPastPut => (response.key \in bucket.objects <=> RowRefers(response.key))

\* C28 for the requests that succeed
C28_SuccessKeepsBoth ==
    (response.op = "upload" /\ response.status = 200) =>
        (response.key \in bucket.objects /\ RowRefers(response.key))

\* a row is left whose object the handler deleted
C28_DanglingRow ==
    UploadPastPut /\ RowRefers(response.key) /\ response.key \notin bucket.objects

\* an object is left that no row refers to
C28_OrphanObject ==
    UploadPastPut /\ ~RowRefers(response.key) /\ response.key \in bucket.objects

(***************************************************************************)
(* verify_database: a failure for one row.                                 *)
(***************************************************************************)
\* a call of verify_database has returned and no other is running
PassReturned == pass.run >= 1 /\ pass.pc \in {"search", "idle"}

\* the rows that lacked a vector when the pass started and for which no
\* step of the pass raised
Regenerated == MissingEmbeddings(pass.before) \ pass.failedIds

\* C29: when verify_database returns, every row that lacked a vector at
\* the start of the pass, except the rows for which a step raised, has a
\* vector; when no step raised, no row is left without a vector.
C29_FailureIsolated ==
    PassReturned =>
        /\ \A i \in Regenerated : i \notin MissingEmbeddings(resumes)
        /\ pass.failedIds = {} => MissingEmbeddings(resumes) = {}

\* C29 on a build that commits each statement
C29_IsolatedWhenDurable == autocommit => C29_FailureIsolated

\* on such a build a pass has returned in which the Embedder raised for one
\* row and a later row got its vector
C29_DurableWitness ==
    /\ PassReturned
    /\ autocommit
    /\ \E i \in pass.failedIds : \E j \in Regenerated \cap DOMAIN resumes :
           /\ i < j
           /\ i \in MissingEmbeddings(resumes)
           /\ resumes[j].embedding = Regenerate(resumes[j])

(***************************************************************************)
(* The search router: a resume that is not there.                          *)
(***************************************************************************)
\* the last request was get_resume or get_resume_details
IsResumeLookup == response.op \in {"get_resume", "get_resume_details"}

\* no resume with the requested id belongs to the requesting user
NotOwned == RowOfUser(resumes, response.resume_id, response.user_id) = <<>>

\* C30: get_resume and get_resume_details answer 404 "Resume not found"
\* when no resume with the requested id belongs to the requesting user, and
\* 500 only for other failures.
C30_NotFoundIs404 ==
    IsResumeLookup =>
        /\ NotOwned => (response.status = 404 /\ response.detail = "Resume not found")
        /\ response.status = 500 => ~NotOwned
====
